---------------------------- MODULE Spec2Model ----------------------------
(***************************************************************************)
(* Model of the delivery-note pipeline of src/app.js                       *)
(* (extractPotentialDeliveryNotes, validateDeliveryNotes) and of the token *)
(* normalizer of src/CR.js (normalizeToken).                               *)
(*                                                                         *)
(* A JavaScript string is a sequence of characters; a character is a       *)
(* one-character TLA+ string ("0", "A", " "), the no-break space U+00A0    *)
(* being written "nbsp".  The text built by a template literal such as     *)
(* `${len} digits (expected 8)` is the sequence of its pieces, the number  *)
(* in decimal: <<"11", " digits (expected 8)">>.                           *)
(***************************************************************************)
EXTENDS Integers, Sequences, FiniteSets, TLC

VARIABLES
    textItems,        \* the document: the texts of its text items, in order
    pc,               \* position in the pipeline
    extractionResult, \* { unique, duplicates, totalCount, occurrenceCount }
    results,          \* the results object of validateDeliveryNotes
    seen,             \* const seen = new Set()
    tempAccepted,     \* const tempAccepted = []
    pending7Digit,    \* const pending7Digit = []
    idx,              \* index of the next element of the running for-of loop
    dominantDigit,    \* let dominantDigit = null
    raw,              \* normalizeToken: the argument
    once,             \* normalizeToken(raw)
    twice,            \* normalizeToken(normalizeToken(raw))
    pages,            \* groupPagesByCR: the argument
    pageI,            \* groupPagesByCR: let i of the loop over pages
    groups,           \* groupPagesByCR: const groups = []
    currentGroup,     \* groupPagesByCR: let currentGroup = null
    merged,           \* groupPagesByCR: the returned array
    measure,          \* analyzeStampAndSignature: what the canvas measures
    config,           \* analyzeStampAndSignature: the argument config
    verification,     \* analyzeStampAndSignature: the returned object
    text,             \* findCRsOnText: the argument
    crMatches,        \* findCRsOnText: the returned array
    selectedFiles,    \* window._selectedFiles, AppState.files
    fileI,            \* the index of the batch loop
    manifest,         \* onRun: const manifest = []
    generatedFiles,   \* window._generatedFiles
    manualBySource,   \* window._manualBySource
    excelBlobs,       \* AppState.excelBlobs
    log,              \* appendLog: the lines of the log
    uploadedFiles,    \* rename-upload.js: let uploadedFiles = []
    isProcessing,     \* AppState.isProcessing
    inFlight,         \* the calls of processFile that await processPDF
    allPending,       \* processAllFiles: const pending, as file ids
    allIndex,         \* processAllFiles: the place of the loop in pending
    nextId,           \* the ids Utils.generateId has given out, as a count
    harnessMatches    \* findCRsOnText of the test harness: the returned array

\* the variables of the delivery-note pipeline but pc
noteVars == <<textItems, extractionResult, results, seen, tempAccepted,
              pending7Digit, idx, dominantDigit>>
valVars == <<textItems, pc, extractionResult, results, seen, tempAccepted,
             pending7Digit, idx, dominantDigit>>
normVars == <<raw, once, twice>>
groupVars == <<pages, pageI, groups, currentGroup, merged>>
verifyVars == <<measure, config, verification>>
locateVars == <<text, crMatches>>
batchVars == <<selectedFiles, fileI, manifest, generatedFiles,
               manualBySource, excelBlobs, log>>
renameVars == <<uploadedFiles>>
appVars == <<isProcessing, inFlight, allPending, allIndex, nextId>>
harnessVars == <<harnessMatches>>
toolVars == <<renameVars, appVars, harnessVars>>
otherVars == <<groupVars, verifyVars, locateVars, batchVars, toolVars>>
vars == <<textItems, pc, extractionResult, results, seen, tempAccepted,
          pending7Digit, idx, dominantDigit, raw, once, twice, otherVars>>

\* groupPagesByCR is not running
GroupIdle ==
    /\ pages = <<>>
    /\ pageI = 0
    /\ groups = <<>>
    /\ currentGroup = <<>>
    /\ merged = <<>>

\* analyzeStampAndSignature is not running
VerifyIdle == measure = <<>> /\ config = <<>> /\ verification = <<>>

\* findCRsOnText is not running
LocateIdle == text = <<>> /\ crMatches = <<>>

\* no batch is running
BatchIdle ==
    /\ selectedFiles = <<>>
    /\ fileI = 0
    /\ manifest = <<>>
    /\ generatedFiles = <<>>
    /\ manualBySource = <<>>
    /\ excelBlobs = <<>>
    /\ log = <<>>

\* no file is listed in the rename tool
RenameIdle == uploadedFiles = <<>>

\* the page of the delivery-note app takes no events
AppIdle ==
    /\ isProcessing = FALSE
    /\ inFlight = {}
    /\ allPending = <<>>
    /\ allIndex = 0
    /\ nextId = 1

\* the tools of the other pages are not in use
ToolIdle == RenameIdle /\ AppIdle /\ harnessMatches = <<>>

\* the parts of the program a pipeline does not call
OtherIdle == GroupIdle /\ VerifyIdle /\ LocateIdle /\ BatchIdle /\ ToolIdle

----------------------------------------------------------------------------
(* Bounds of the model *)

\* longest document of the general family (text items, repetitions allowed)
MaxItems == 3
\* longest document of the family of pairwise distinct candidates
MaxDistinct == 5
\* longest document of the family of repeated values
MaxRepeats == 4
\* longest argument of normalizeToken
MaxTokenLen == 3

----------------------------------------------------------------------------
(* Characters and strings *)

Digits == {"0", "1", "2", "3", "4", "5", "6", "7", "8", "9"}

\* faulty variant of DigitOrder: the descending order
DigitOrder_Descending == <<"9", "8", "7", "6", "5", "4", "3", "2", "1", "0">>
\* the digits in ascending numeric order ("0" first)
DigitOrder == <<"0", "1", "2", "3", "4", "5", "6", "7", "8", "9">>

\* \s of a JavaScript regular expression, within the model's alphabet
Whitespace == {" ", "nbsp", "\n"}

Range(s) == {s[i] : i \in 1..Len(s)}

\* the string of n copies of the character c
Rep(c, n) == [i \in 1..n |-> c]

\* text.replace(/\s+/g, '')
RemoveWhitespace(s) == SelectSeq(s, LAMBDA c : c \notin Whitespace)

\* /^\d+$/.test(s)
IsDigitString(s) == Len(s) > 0 /\ \A i \in 1..Len(s) : s[i] \in Digits

\* [...new Set(s)]: the distinct elements of s in first-occurrence order
RECURSIVE Distinct(_)
Distinct(s) ==
    IF s = <<>> THEN <<>>
    ELSE LET front == Distinct(SubSeq(s, 1, Len(s) - 1))
             last == s[Len(s)]
         IN  IF last \in Range(front) THEN front ELSE Append(front, last)

\* the number of positions of s that hold v
Occurrences(s, v) == Cardinality({i \in 1..Len(s) : s[i] = v})


----------------------------------------------------------------------------
(* extractPotentialDeliveryNotes and the test helper makeExtractionResult *)

\* the entries { value, count, reason } of the values of unique found more
\* than once; reasonTail is the text after the count in the reason
RECURSIVE CountedDuplicates(_, _, _)
CountedDuplicates(unique, allCandidates, reasonTail) ==
    IF unique = <<>> THEN <<>>
    ELSE LET value == Head(unique)
             count == Occurrences(allCandidates, value)
             rest == CountedDuplicates(Tail(unique), allCandidates, reasonTail)
         IN  IF count > 1
             THEN <<[value |-> value, count |-> count,
                     reason |-> <<"Found ", ToString(count), reasonTail>>]>> \o rest
             ELSE rest

\* /^\d{7,12}$/.test(cleaned), after the empty string was skipped
IsCandidate_AnyLength(cleaned) == cleaned # <<>> /\ IsDigitString(cleaned)
IsCandidate(cleaned) ==
    cleaned # <<>> /\ IsDigitString(cleaned) /\ Len(cleaned) >= 7 /\ Len(cleaned) <= 12

extractPotentialDeliveryNotes(items) ==
    LET cleanedItems == [i \in 1..Len(items) |-> RemoveWhitespace(items[i])]
        allCandidates == SelectSeq(cleanedItems, IsCandidate)
        uniqueCandidates == Distinct(allCandidates)
    IN  [unique |-> uniqueCandidates,
         duplicates |-> CountedDuplicates(uniqueCandidates, allCandidates,
                                          " times in document"),
         totalCount |-> Len(allCandidates),
         occurrenceCount |-> [v \in Range(uniqueCandidates) |->
                                  Occurrences(allCandidates, v)]]

makeExtractionResult(notes) ==
    LET unique == Distinct(notes)
    IN  [unique |-> unique,
         duplicates |-> CountedDuplicates(unique, notes, " times"),
         totalCount |-> Len(notes),
         occurrenceCount |-> [v \in Range(unique) |-> Occurrences(notes, v)]]

----------------------------------------------------------------------------
(* validateDeliveryNotes: the first loop, over the unique candidates *)

\* the value of a variable that holds null
Null == "null"

EmptyResults(totalCount) ==
    [accepted |-> <<>>, excluded |-> <<>>, invalid |-> <<>>,
     autoCorrections |-> <<>>, duplicates |-> <<>>,
     uniqueCount |-> 0, duplicateCount |-> 0, totalOccurrences |-> totalCount]

\* the locals of one call: results, seen, tempAccepted, pending7Digit
EmptyContext(totalCount) ==
    [results |-> EmptyResults(totalCount), seen |-> {},
     tempAccepted |-> <<>>, pending7Digit |-> <<>>]

\* cleaned.replace(/^0+/, '')
RECURSIVE StripLeadingZeros(_)
StripLeadingZeros(s) ==
    IF s # <<>> /\ s[1] = "0" THEN StripLeadingZeros(Tail(s)) ELSE s

\* occurrenceCount[value] || 1
CountOrOne(occurrenceCount, value) ==
    IF value \in DOMAIN occurrenceCount THEN occurrenceCount[value] ELSE 1

\* faulty variant of AcceptEightDigits: a value that starts with "0" is taken
\* for a shorter number and marked invalid
AcceptEightDigits_ZeroInvalid(ctx, cleaned) ==
    IF cleaned[1] = "0"
    THEN [ctx EXCEPT !.results.invalid =
            Append(@, [value |-> cleaned,
                       reason |-> <<ToString(Len(StripLeadingZeros(cleaned))),
                                    " digits (expected 8)">>])]
    ELSE [ctx EXCEPT !.seen = @ \cup {cleaned},
                     !.tempAccepted = Append(@, cleaned)]

\* len === 8: both branches of the inner if accept the value as it is
AcceptEightDigits(ctx, cleaned) ==
    [ctx EXCEPT !.seen = @ \cup {cleaned},
                !.tempAccepted = Append(@, cleaned)]

\* faulty variant of AcceptStripped: the seen set is not consulted
AcceptStripped_Unchecked(ctx, cleaned, stripped, correctionReason, duplicateCount) ==
    [ctx EXCEPT
        !.seen = @ \cup {stripped},
        !.results.autoCorrections =
            Append(@, [original |-> cleaned, corrected |-> stripped,
                       confidence |-> "high", reason |-> correctionReason]),
        !.results.accepted = Append(@, stripped)]

\* the stripped value has 8 digits: accept it with an auto-correction when it
\* is new, record a duplicate when it was seen
AcceptStripped(ctx, cleaned, stripped, correctionReason, duplicateCount) ==
    IF stripped \notin ctx.seen
    THEN [ctx EXCEPT
            !.seen = @ \cup {stripped},
            !.results.autoCorrections =
                Append(@, [original |-> cleaned, corrected |-> stripped,
                           confidence |-> "high", reason |-> correctionReason]),
            !.results.accepted = Append(@, stripped)]
    ELSE [ctx EXCEPT
            !.results.duplicates =
                Append(@, [value |-> stripped, count |-> duplicateCount,
                           reason |-> <<"Corrected from ">> \o cleaned
                                        \o <<", already exists">>]),
            !.results.duplicateCount = @ + 1]

\* faulty variant of PushExcluded: the reason of the 9-digit branch is used
\* for every length
PushExcluded_NineOnly(ctx, cleaned, len) ==
    [ctx EXCEPT !.results.excluded =
        Append(@, [value |-> cleaned,
                   reason |-> <<"9", " digits (excluded - likely Transport ID)">>])]

PushExcluded(ctx, cleaned, len) ==
    [ctx EXCEPT !.results.excluded =
        Append(@, [value |-> cleaned,
                   reason |-> <<ToString(len),
                                " digits (excluded - likely Transport ID)">>])]

PushInvalidLength(ctx, cleaned, len) ==
    [ctx EXCEPT !.results.invalid =
        Append(@, [value |-> cleaned, reason |-> <<ToString(len), " digits (expected 8)">>])]

\* len === 9 && cleaned.startsWith('0')
NineWithLeadingZero(ctx, cleaned, occurrenceCount) ==
    LET stripped == StripLeadingZeros(cleaned)
    IN  IF Len(stripped) = 8
        THEN AcceptStripped(ctx, cleaned, stripped, <<"Removed leading zero">>,
                            CountOrOne(occurrenceCount, stripped) + 1)
        ELSE PushExcluded(ctx, cleaned, 9)

\* len === 10 && cleaned.startsWith('0')
TenWithLeadingZero(ctx, cleaned, occurrenceCount) ==
    LET stripped == StripLeadingZeros(cleaned)
    IN  IF Len(stripped) = 8
        THEN AcceptStripped(ctx, cleaned, stripped,
                            <<"Removed ", ToString(Len(cleaned) - 8), " leading zero(s)">>,
                            CountOrOne(occurrenceCount, stripped) + 1)
        ELSE PushExcluded(ctx, cleaned, 10)

\* faulty variant of LongWithLeadingZero: the else branch of the 10-digit
\* case is used
LongWithLeadingZero_Excluded(ctx, cleaned) ==
    LET stripped == StripLeadingZeros(cleaned)
    IN  IF Len(stripped) = 8
        THEN AcceptStripped(ctx, cleaned, stripped,
                            <<"Removed ", ToString(Len(cleaned) - 8), " leading zero(s)">>, 2)
        ELSE PushExcluded(ctx, cleaned, Len(cleaned))

\* len > 10 && cleaned.startsWith('0')
LongWithLeadingZero(ctx, cleaned) ==
    LET stripped == StripLeadingZeros(cleaned)
    IN  IF Len(stripped) = 8
        THEN AcceptStripped(ctx, cleaned, stripped,
                            <<"Removed ", ToString(Len(cleaned) - 8), " leading zero(s)">>, 2)
        ELSE PushInvalidLength(ctx, cleaned, Len(cleaned))

\* one iteration of for (const note of rawNotes)
ClassifyNote(ctx, note, occurrenceCount) ==
    LET cleaned == RemoveWhitespace(note)
        len == Len(cleaned)
    IN  IF cleaned = <<>> THEN ctx
        ELSE IF ~IsDigitString(cleaned)
        THEN [ctx EXCEPT !.results.invalid =
                Append(@, [value |-> cleaned,
                           reason |-> <<"Contains non-digit characters">>])]
        ELSE IF len = 8 THEN AcceptEightDigits(ctx, cleaned)
        ELSE IF len = 9 /\ cleaned[1] = "0"
        THEN NineWithLeadingZero(ctx, cleaned, occurrenceCount)
        ELSE IF len = 10 /\ cleaned[1] = "0"
        THEN TenWithLeadingZero(ctx, cleaned, occurrenceCount)
        ELSE IF len > 10 /\ cleaned[1] = "0"
        THEN LongWithLeadingZero(ctx, cleaned)
        ELSE IF len = 9 \/ len = 10 THEN PushExcluded(ctx, cleaned, len)
        ELSE IF len = 7
        THEN [ctx EXCEPT !.pending7Digit = Append(@, cleaned)]
        ELSE PushInvalidLength(ctx, cleaned, len)

----------------------------------------------------------------------------
(* validateDeliveryNotes: the 7-digit candidates *)

\* firstDigitCounts, a digit that was never counted standing at 0
FirstDigitCounts(accepted8, autoCorrections) ==
    [d \in Digits |->
        Cardinality({i \in 1..Len(accepted8) : accepted8[i][1] = d})
      + Cardinality({i \in 1..Len(autoCorrections) :
                        autoCorrections[i].corrected[1] = d})]

\* faulty variant of MeetsThreshold: the 30 % share is not required
MeetsThreshold_AtLeastOne(count, totalAccepted) == count >= 1

\* count >= Math.max(1, totalAccepted * 0.3), in whole numbers (a whole count
\* is at least 0.3 * n exactly when ten times it is at least 3 * n)
MeetsThreshold(count, totalAccepted) ==
    count >= 1 /\ 10 * count >= 3 * totalAccepted

\* for (const [digit, count] of Object.entries(firstDigitCounts)): the keys
\* "0".."9" are integer keys, which Object.entries yields in ascending
\* numeric order; position is the place in DigitOrder of the next key
RECURSIVE ScanFirstDigits(_, _, _, _, _)
ScanFirstDigits(counts, totalAccepted, position, maxCount, dominant) ==
    IF position > Len(DigitOrder) THEN dominant
    ELSE LET digit == DigitOrder[position]
             count == counts[digit]
         IN  IF count > maxCount /\ MeetsThreshold(count, totalAccepted)
             THEN ScanFirstDigits(counts, totalAccepted, position + 1, count, digit)
             ELSE ScanFirstDigits(counts, totalAccepted, position + 1,
                                  maxCount, dominant)

\* the dominant first digit, Null when no digit reaches the threshold
DominantDigit(accepted8, autoCorrections) ==
    ScanFirstDigits(FirstDigitCounts(accepted8, autoCorrections),
                    Len(accepted8) + Len(autoCorrections), 1, 0, Null)

\* pending[0] === dominantDigit
PushAlreadyStarts(ctx, pending, dominant) ==
    [ctx EXCEPT !.results.invalid =
        Append(@, [value |-> pending,
                   reason |-> <<"7 digits - already starts with '", dominant,
                                "' (missing last digit, not first)">>])]

\* faulty variant of AcceptWithLeadingDigit: the digit is put after the
\* candidate (pending + dominantDigit)
AcceptWithLeadingDigit_Appended(ctx, pending, dominant, occurrenceCount) ==
    LET corrected == pending \o <<dominant>>
        existingCount == CountOrOne(occurrenceCount, corrected)
    IN  IF corrected \notin ctx.seen
        THEN [ctx EXCEPT
                !.seen = @ \cup {corrected},
                !.results.autoCorrections =
                    Append(@, [original |-> pending, corrected |-> corrected,
                               confidence |-> "high",
                               reason |-> <<"Added leading '", dominant, "'">>]),
                !.results.accepted = Append(@, corrected)]
        ELSE [ctx EXCEPT
                !.results.duplicates =
                    Append(@, [value |-> corrected, count |-> existingCount + 1,
                               reason |-> <<"Corrected from ">> \o pending
                                   \o <<", already exists (now ",
                                        ToString(existingCount + 1), " times)">>]),
                !.results.duplicateCount = @ + 1]

\* const corrected = dominantDigit + pending, accepted when new
AcceptWithLeadingDigit(ctx, pending, dominant, occurrenceCount) ==
    LET corrected == <<dominant>> \o pending
        existingCount == CountOrOne(occurrenceCount, corrected)
    IN  IF corrected \notin ctx.seen
        THEN [ctx EXCEPT
                !.seen = @ \cup {corrected},
                !.results.autoCorrections =
                    Append(@, [original |-> pending, corrected |-> corrected,
                               confidence |-> "high",
                               reason |-> <<"Added leading '", dominant, "'">>]),
                !.results.accepted = Append(@, corrected)]
        ELSE [ctx EXCEPT
                !.results.duplicates =
                    Append(@, [value |-> corrected, count |-> existingCount + 1,
                               reason |-> <<"Corrected from ">> \o pending
                                   \o <<", already exists (now ",
                                        ToString(existingCount + 1), " times)">>]),
                !.results.duplicateCount = @ + 1]

\* faulty variant of ResolvePending: the check that the candidate already
\* starts with the dominant digit is missing
ResolvePending_NoStartCheck(ctx, pending, dominant, occurrenceCount) ==
    IF dominant # Null
    THEN AcceptWithLeadingDigit(ctx, pending, dominant, occurrenceCount)
    ELSE [ctx EXCEPT !.results.invalid =
            Append(@, [value |-> pending,
                       reason |-> <<"7 digits - needs manual review">>])]

\* one iteration of for (const pending of pending7Digit)
ResolvePending(ctx, pending, dominant, occurrenceCount) ==
    IF dominant # Null
    THEN IF pending[1] = dominant
         THEN PushAlreadyStarts(ctx, pending, dominant)
         ELSE AcceptWithLeadingDigit(ctx, pending, dominant, occurrenceCount)
    ELSE [ctx EXCEPT !.results.invalid =
            Append(@, [value |-> pending,
                       reason |-> <<"7 digits - needs manual review">>])]

----------------------------------------------------------------------------
(* validateDeliveryNotes: the end of the call *)

\* results.duplicates.some(d => d.value === value)
AlreadyAdded(duplicates, value) ==
    \E i \in 1..Len(duplicates) : duplicates[i].value = value

\* faulty variant of AddExtractedDuplicates: the length of the value is not
\* looked at
RECURSIVE AddExtractedDuplicates_AnyLength(_, _, _)
AddExtractedDuplicates_AnyLength(res, extractedDuplicates, seenValues) ==
    IF extractedDuplicates = <<>> THEN res
    ELSE LET dup == Head(extractedDuplicates)
             next == IF ~AlreadyAdded(res.duplicates, dup.value)
                     THEN [res EXCEPT !.duplicates = Append(@, dup),
                                      !.duplicateCount = @ + (dup.count - 1)]
                     ELSE res
         IN  AddExtractedDuplicates_AnyLength(next, Tail(extractedDuplicates),
                                              seenValues)

\* for (const dup of extractedDuplicates)
RECURSIVE AddExtractedDuplicates(_, _, _)
AddExtractedDuplicates(res, extractedDuplicates, seenValues) ==
    IF extractedDuplicates = <<>> THEN res
    ELSE LET dup == Head(extractedDuplicates)
             next == IF /\ Len(dup.value) = 8
                        /\ dup.value \in seenValues
                        /\ ~AlreadyAdded(res.duplicates, dup.value)
                     THEN [res EXCEPT !.duplicates = Append(@, dup),
                                      !.duplicateCount = @ + (dup.count - 1)]
                     ELSE res
         IN  AddExtractedDuplicates(next, Tail(extractedDuplicates), seenValues)

\* faulty variant of FinalResults: tempAccepted is not pushed to accepted
FinalResults_WithoutAccepted(ctx, extractedDuplicates) ==
    LET withDuplicates ==
            AddExtractedDuplicates(ctx.results, extractedDuplicates, ctx.seen)
    IN  [withDuplicates EXCEPT
            !.uniqueCount = Cardinality(Range(withDuplicates.accepted))]

\* results.accepted.push(...tempAccepted), the extraction's duplicates, the
\* final stats
FinalResults(ctx, extractedDuplicates) ==
    LET withAccepted == [ctx.results EXCEPT !.accepted = @ \o ctx.tempAccepted]
        withDuplicates ==
            AddExtractedDuplicates(withAccepted, extractedDuplicates, ctx.seen)
    IN  [withDuplicates EXCEPT
            !.uniqueCount = Cardinality(Range(withDuplicates.accepted))]

----------------------------------------------------------------------------
(* The documents of the model *)

\* text items of the general family: every branch of the first loop has one
GeneralPool ==
    { Rep("1", 8),                        \* 8 digits
      <<"0">> \o Rep("1", 7),             \* 8 digits, the first one a zero
      <<"1", "2">> \o Rep("1", 6),        \* 8 digits: "1" before "2111111"
      <<"0">> \o Rep("1", 8),             \* 9 digits, 8 after the zeros
      <<"0", "0">> \o Rep("1", 8),        \* 10 digits, 8 after the zeros
      <<"0", "0", "0">> \o Rep("1", 8),   \* 11 digits, 8 after the zeros
      <<"0">> \o Rep("1", 9),             \* 10 digits, 9 after the zero
      <<"0">> \o Rep("1", 10),            \* 11 digits, 10 after the zero
      Rep("1", 9), Rep("1", 10),          \* 9 and 10 digits, no leading zero
      Rep("1", 11),                       \* 11 digits, no leading zero
      Rep("1", 7),                        \* 7 digits
      <<"2">> \o Rep("1", 6),             \* 7 digits
      Rep("1", 5),                        \* too short for the extraction
      Rep("1", 4) \o <<" ">> \o Rep("1", 4),   \* 8 digits around a space
      Rep("1", 7) \o <<"A">> }            \* not a number

\* candidates of the family of distinct values: 8-digit values with four
\* different first digits, and 7-digit values
DistinctPool ==
    { Rep("1", 8), Rep("2", 8), Rep("3", 8), Rep("4", 8),
      Rep("1", 7), <<"2">> \o Rep("1", 6) }

\* candidates of the family of repeated values
RepeatPool ==
    { Rep("1", 8), Rep("1", 9), <<"0">> \o Rep("1", 8), Rep("1", 7) }

\* the sequences over pool of at most n elements
SeqsUpTo(pool, n) == UNION {[1..k -> pool] : k \in 0..n}

IsInjective(s) == \A i, j \in 1..Len(s) : s[i] = s[j] => i = j

Documents ==
    SeqsUpTo(GeneralPool, MaxItems)
        \cup {d \in SeqsUpTo(DistinctPool, MaxDistinct) : IsInjective(d)}
        \cup SeqsUpTo(RepeatPool, MaxRepeats)

----------------------------------------------------------------------------
(* The pipeline of one document: extraction, then validateDeliveryNotes step *)
(* by step *)

NoExtraction == makeExtractionResult(<<>>)

\* the locals of validateDeliveryNotes as one record
Context ==
    [results |-> results, seen |-> seen, tempAccepted |-> tempAccepted,
     pending7Digit |-> pending7Digit]

SetContext(ctx) ==
    /\ results' = ctx.results
    /\ seen' = ctx.seen
    /\ tempAccepted' = ctx.tempAccepted
    /\ pending7Digit' = ctx.pending7Digit

\* validateDeliveryNotes is entered with the extraction's result
EnterValidate(extraction) ==
    /\ extractionResult' = extraction
    /\ SetContext(EmptyContext(extraction.totalCount))
    /\ idx' = 1
    /\ pc' = IF extraction.unique = <<>> THEN "finalize" ELSE "classify"
    /\ UNCHANGED <<textItems, dominantDigit, normVars, otherVars>>

\* processPDF: extractPotentialDeliveryNotes(textItems), then validation
Extract ==
    /\ pc = "extract"
    /\ EnterValidate(extractPotentialDeliveryNotes(textItems))

\* runTests: validateDeliveryNotes(makeExtractionResult(notes))
ExtractByHelper ==
    /\ pc = "extract"
    /\ EnterValidate(makeExtractionResult(textItems))

\* one iteration of the loop over rawNotes
ClassifyStep ==
    /\ pc = "classify"
    /\ LET rawNotes == extractionResult.unique
           ctx == ClassifyNote(Context, rawNotes[idx],
                               extractionResult.occurrenceCount)
       IN  /\ SetContext(ctx)
           /\ IF idx < Len(rawNotes)
              THEN idx' = idx + 1 /\ pc' = "classify"
              ELSE /\ idx' = 1
                   /\ pc' = IF Len(ctx.pending7Digit) > 0
                            THEN "dominant" ELSE "finalize"
    /\ UNCHANGED <<textItems, extractionResult, dominantDigit, normVars, otherVars>>

\* if (pending7Digit.length > 0): the dominant first digit
ComputeDominant ==
    /\ pc = "dominant"
    /\ dominantDigit' = DominantDigit(tempAccepted, results.autoCorrections)
    /\ pc' = "pending"
    /\ UNCHANGED <<textItems, extractionResult, results, seen, tempAccepted,
                   pending7Digit, idx, normVars, otherVars>>

\* one iteration of the loop over pending7Digit
PendingStep ==
    /\ pc = "pending"
    /\ SetContext(ResolvePending(Context, pending7Digit[idx], dominantDigit,
                                 extractionResult.occurrenceCount))
    /\ IF idx < Len(pending7Digit)
       THEN idx' = idx + 1 /\ pc' = "pending"
       ELSE idx' = 1 /\ pc' = "finalize"
    /\ UNCHANGED <<textItems, extractionResult, dominantDigit, normVars, otherVars>>

\* the rest of validateDeliveryNotes, up to return results
Finalize ==
    /\ pc = "finalize"
    /\ results' = FinalResults(Context, extractionResult.duplicates)
    /\ pc' = "done"
    /\ UNCHANGED <<textItems, extractionResult, seen, tempAccepted,
                   pending7Digit, idx, dominantDigit, normVars, otherVars>>

\* the normalizer is not called by this pipeline
NormIdle == raw = <<>> /\ once = <<>> /\ twice = <<>>

Init ==
    /\ textItems \in Documents
    /\ pc = "extract"
    /\ extractionResult = NoExtraction
    /\ results = EmptyResults(0)
    /\ seen = {}
    /\ tempAccepted = <<>>
    /\ pending7Digit = <<>>
    /\ idx = 1
    /\ dominantDigit = Null
    /\ NormIdle
    /\ OtherIdle

Next ==
    \/ Extract
    \/ ExtractByHelper
    \/ ClassifyStep
    \/ ComputeDominant
    \/ PendingStep
    \/ Finalize

Spec == Init /\ [][Next]_vars

----------------------------------------------------------------------------
(* normalizeToken of src/CR.js (src/app.js holds a copy of it) *)

\* a null argument: a token that is no string of characters
NullToken == <<Null>>

\* the characters the arguments of the model are made of
TokenAlphabet ==
    {"0", "5", "7", " ", "nbsp", "-", "O", "l", "s", "$", "B", "g", "Z", "A",
     "sharp-s", "|"}

\* s.replace(/[...]/g, to) for a class of single characters
ReplaceClass(s, class, to) ==
    [i \in 1..Len(s) |-> IF s[i] \in class THEN to ELSE s[i]]

\* s.replace(/[...]+/g, '')
RemoveClass(s, class) == SelectSeq(s, LAMBDA c : c \notin class)

\* String.prototype.toUpperCase on one character: the letters of the model,
\* the sharp s ("sharp-s", U+00DF) becoming "SS"
UpperCaseOf(c) ==
    CASE c = "o" -> <<"O">>
      [] c = "q" -> <<"Q">>
      [] c = "i" -> <<"I">>
      [] c = "l" -> <<"L">>
      [] c = "s" -> <<"S">>
      [] c = "b" -> <<"B">>
      [] c = "g" -> <<"G">>
      [] c = "z" -> <<"Z">>
      [] c = "a" -> <<"A">>
      [] c = "sharp-s" -> <<"S", "S">>
      [] OTHER -> <<c>>

RECURSIVE ToUpperCase(_)
ToUpperCase(s) ==
    IF s = <<>> THEN <<>> ELSE UpperCaseOf(Head(s)) \o ToUpperCase(Tail(s))

\* faulty variant of KeepDigits: the class is not negated, /[\d]/g
KeepDigits_Inverted(s) == SelectSeq(s, LAMBDA c : c \notin Digits)

\* .replace(/[^\d]/g, '')
KeepDigits(s) == SelectSeq(s, LAMBDA c : c \in Digits)

\* the OCR character corrections, in the order of the code
OcrCorrections(s) ==
    LET zero == ReplaceClass(s, {"O", "Q"}, "0")
        one == ReplaceClass(zero, {"I", "L", "|", "]", "["}, "1")
        five == ReplaceClass(one, {"S", "s", "$"}, "5")
        eight == ReplaceClass(five, {"B"}, "8")
        nine == ReplaceClass(eight, {"G"}, "9")
        two == ReplaceClass(nine, {"Z"}, "2")
    IN  KeepDigits(two)

normalizeToken(token) ==
    IF token = NullToken \/ token = <<>> THEN <<>>
    ELSE LET spaced == ReplaceClass(token, {"nbsp"}, " ")
             joined == RemoveClass(spaced, Whitespace \cup {"-", ".", ",", "_"})
         IN  OcrCorrections(ToUpperCase(joined))

\* the arguments of the model
Tokens == {NullToken} \cup SeqsUpTo(TokenAlphabet, MaxTokenLen)

\* the delivery-note pipeline is not running
ValidateIdle ==
    /\ textItems = <<>>
    /\ extractionResult = NoExtraction
    /\ results = EmptyResults(0)
    /\ seen = {}
    /\ tempAccepted = <<>>
    /\ pending7Digit = <<>>
    /\ idx = 1
    /\ dominantDigit = Null

NormInit ==
    /\ raw \in Tokens
    /\ once = <<>>
    /\ twice = <<>>
    /\ pc = "token"
    /\ ValidateIdle
    /\ OtherIdle

\* const value = normalizeToken(raw)
NormalizeRaw ==
    /\ pc = "token"
    /\ once' = normalizeToken(raw)
    /\ pc' = "normalized"
    /\ UNCHANGED <<textItems, extractionResult, results, seen, tempAccepted,
                   pending7Digit, idx, dominantDigit, raw, twice, otherVars>>

\* the normalized value is normalized again
NormalizeAgain ==
    /\ pc = "normalized"
    /\ twice' = normalizeToken(once)
    /\ pc' = "renormalized"
    /\ UNCHANGED <<textItems, extractionResult, results, seen, tempAccepted,
                   pending7Digit, idx, dominantDigit, raw, once, otherVars>>

NormNext == NormalizeRaw \/ NormalizeAgain

SpecNorm == NormInit /\ [][NormNext]_vars

----------------------------------------------------------------------------
(* Vocabulary of the properties.  It is written from the statements, not   *)
(* from the operators above: what a candidate should become is computed    *)
(* here a second time, from the candidate alone.                           *)

\* validateDeliveryNotes has returned
Returned == pc = "done"

\* the candidates of the document, as validateDeliveryNotes reads them
Candidates ==
    [k \in 1..Len(extractionResult.unique) |->
        SelectSeq(extractionResult.unique[k], LAMBDA ch : ch \notin Whitespace)]

\* the candidate c without the zeros it starts with
ZeroStripped(c) ==
    LET nonZero == {i \in 1..Len(c) : c[i] # "0"}
    IN  IF nonZero = {} THEN <<>>
        ELSE SubSeq(c, CHOOSE i \in nonZero : \A j \in nonZero : i <= j, Len(c))

\* c is a digit string of 9 or more digits that starts with "0" and has 8
\* digits after its leading zeros
IsPadded(c) ==
    /\ IsDigitString(c)
    /\ Len(c) >= 9
    /\ c[1] = "0"
    /\ Len(ZeroStripped(c)) = 8

IsEightDigits(c) == IsDigitString(c) /\ Len(c) = 8

IsSevenDigits(c) == IsDigitString(c) /\ Len(c) = 7

\* the value v is in the accepted set when the k-th candidate is classified:
\* an earlier candidate is v, or is v with zeros before it
AcceptedBefore(k, v) ==
    \E j \in 1..(k - 1) :
        \/ Candidates[j] = v /\ IsEightDigits(v)
        \/ IsPadded(Candidates[j]) /\ ZeroStripped(Candidates[j]) = v

\* the indices of the autoCorrections entries made for the candidate c
CorrectionsOf(c) ==
    {i \in 1..Len(results.autoCorrections) :
        results.autoCorrections[i].original = c}

\* the indices of the duplicates entries made because the correction of the
\* candidate c gave a value that was accepted before
DuplicatesFrom(c) ==
    {i \in 1..Len(results.duplicates) :
        /\ Len(results.duplicates[i].reason) >= 1 + Len(c)
        /\ SubSeq(results.duplicates[i].reason, 1, 1 + Len(c))
               = <<"Corrected from ">> \o c}

ExcludedEntries(c) ==
    {i \in 1..Len(results.excluded) : results.excluded[i].value = c}

InvalidEntries(c) ==
    {i \in 1..Len(results.invalid) : results.invalid[i].value = c}

\* the values accepted through a correction: they are pushed to accepted
\* together with their autoCorrections entry, before the 8-digit candidates
AcceptedByCorrection ==
    SubSeq(results.accepted, 1, Len(results.autoCorrections))

\* accepted holds one value per autoCorrections entry, in the same order
CorrectionsMatchAccepted ==
    /\ Len(results.accepted) >= Len(results.autoCorrections)
    /\ \A i \in 1..Len(results.autoCorrections) :
          results.accepted[i] = results.autoCorrections[i].corrected

\* the candidate c was corrected to v: one autoCorrections entry says so, v is
\* accepted, and no duplicate is recorded for c
CorrectedTo(c, v) ==
    /\ Cardinality(CorrectionsOf(c)) = 1
    /\ \A i \in CorrectionsOf(c) :
          /\ results.autoCorrections[i].corrected = v
          /\ results.autoCorrections[i].confidence = "high"
    /\ v \in Range(results.accepted)
    /\ DuplicatesFrom(c) = {}

\* the correction v of the candidate c is recorded as a duplicate: one
\* duplicates entry, no autoCorrections entry, nothing accepted again
DuplicateOf(c, v) ==
    /\ CorrectionsOf(c) = {}
    /\ Cardinality(DuplicatesFrom(c)) = 1
    /\ \A i \in DuplicatesFrom(c) : results.duplicates[i].value = v
    /\ v \in Range(results.accepted)
    /\ Occurrences(AcceptedByCorrection, v) <= 1

----------------------------------------------------------------------------
(* C1: every candidate of 9, 10 or more digits that starts with "0" and    *)
(* has 8 digits after its leading zeros gets exactly one autoCorrections   *)
(* entry (original the candidate, corrected the stripped value) and the    *)
(* stripped value is accepted; when the stripped value was accepted        *)
(* before, it is recorded under duplicates instead, with no autoCorrections *)
(* entry and no second acceptance by correction; never both.               *)
Thm_C1 ==
    Returned =>
        /\ CorrectionsMatchAccepted
        /\ \A k \in 1..Len(Candidates) :
              LET c == Candidates[k]
                  s == ZeroStripped(c)
              IN  IsPadded(c) =>
                      IF AcceptedBefore(k, s)
                      THEN DuplicateOf(c, s)
                      ELSE CorrectedTo(c, s)

\* a document with two zero-padded forms of one value, the second one of 11
\* digits or more: the first is corrected, the second is a duplicate
Wit_C1 ==
    /\ Returned
    /\ \E j, k \in 1..Len(Candidates) :
          /\ j < k
          /\ IsPadded(Candidates[j]) /\ IsPadded(Candidates[k])
          /\ Len(Candidates[k]) >= 11
          /\ ~AcceptedBefore(j, ZeroStripped(Candidates[j]))
          /\ AcceptedBefore(k, ZeroStripped(Candidates[k]))
          /\ CorrectedTo(Candidates[j], ZeroStripped(Candidates[j]))
          /\ DuplicateOf(Candidates[k], ZeroStripped(Candidates[k]))

----------------------------------------------------------------------------
(* C2: every 8-digit candidate is in accepted as it is, leading zeros or   *)
(* not, and in neither excluded nor invalid, whatever the other candidates *)
(* of the document are.                                                    *)
Thm_C2 ==
    Returned =>
        \A k \in 1..Len(Candidates) :
            LET c == Candidates[k]
            IN  IsEightDigits(c) =>
                    /\ c \in Range(results.accepted)
                    /\ ExcludedEntries(c) = {}
                    /\ InvalidEntries(c) = {}

\* an accepted 8-digit candidate that starts with "0", in a document that
\* also has a candidate of another length
Wit_C2 ==
    /\ Returned
    /\ \E j, k \in 1..Len(Candidates) :
          /\ IsEightDigits(Candidates[k])
          /\ Candidates[k][1] = "0"
          /\ Candidates[k] \in Range(results.accepted)
          /\ IsDigitString(Candidates[j])
          /\ Len(Candidates[j]) # 8

----------------------------------------------------------------------------
(* C3: every candidate of 9 or 10 digits that does not start with "0" is   *)
(* in excluded with the reason "<n> digits (excluded - likely Transport    *)
(* ID)", and yields no accepted value and no autoCorrections entry.        *)
Thm_C3 ==
    Returned =>
        \A k \in 1..Len(Candidates) :
            LET c == Candidates[k]
            IN  (IsDigitString(c) /\ Len(c) \in {9, 10} /\ c[1] # "0") =>
                    /\ Cardinality(ExcludedEntries(c)) = 1
                    /\ \A i \in ExcludedEntries(c) :
                          results.excluded[i].reason =
                              <<IF Len(c) = 9 THEN "9" ELSE "10",
                                " digits (excluded - likely Transport ID)">>
                    /\ c \notin Range(results.accepted)
                    /\ CorrectionsOf(c) = {}
                    /\ DuplicatesFrom(c) = {}
                    /\ InvalidEntries(c) = {}
                    \* every accepted value comes from another candidate
                    /\ \A i \in 1..Len(results.accepted) :
                          \/ i <= Len(results.autoCorrections)
                             /\ results.autoCorrections[i].corrected
                                    = results.accepted[i]
                          \/ \E j \in 1..Len(Candidates) :
                                j # k /\ Candidates[j] = results.accepted[i]

\* a 10-digit candidate without leading zero is excluded while another
\* candidate of the document is accepted
Wit_C3 ==
    /\ Returned
    /\ Len(results.accepted) > 0
    /\ \E k \in 1..Len(Candidates) :
          /\ IsDigitString(Candidates[k])
          /\ Len(Candidates[k]) = 10
          /\ Candidates[k][1] # "0"
          /\ ExcludedEntries(Candidates[k]) # {}

----------------------------------------------------------------------------
(* The 7-digit candidates *)

HasDominant == dominantDigit # Null

HasSevenDigits ==
    \E k \in 1..Len(Candidates) : IsSevenDigits(Candidates[k])

\* the value v is in the accepted set when the 7-digit candidates are
\* resolved: a candidate is v, or is v with zeros before it
AcceptedInFirstLoop(v) == AcceptedBefore(Len(Candidates) + 1, v)

\* the 7-digit candidate p was marked invalid with a reason that starts with
\* the text first, and nothing else was recorded for it
InvalidWith(p, first) ==
    /\ Cardinality(InvalidEntries(p)) = 1
    /\ \A i \in InvalidEntries(p) : Head(results.invalid[i].reason) = first
    /\ CorrectionsOf(p) = {}
    /\ DuplicatesFrom(p) = {}

----------------------------------------------------------------------------
(* C4: with a dominant digit d, a 7-digit candidate p that does not start  *)
(* with d becomes d+p; when d+p is not accepted yet it is added to         *)
(* accepted with one autoCorrections entry {original p, corrected d+p,     *)
(* reason "Added leading 'd'", confidence high}; when d+p is accepted      *)
(* already it is recorded under duplicates and accepted is not extended.   *)
Thm_C4 ==
    Returned =>
        \A k \in 1..Len(Candidates) :
            LET p == Candidates[k]
                d == dominantDigit
                v == <<d>> \o p
            IN  (IsSevenDigits(p) /\ HasDominant /\ p[1] # d) =>
                    /\ CorrectionsMatchAccepted
                    /\ InvalidEntries(p) = {}
                    /\ IF AcceptedInFirstLoop(v)
                       THEN DuplicateOf(p, v)
                       ELSE /\ CorrectedTo(p, v)
                            /\ \A i \in CorrectionsOf(p) :
                                  results.autoCorrections[i] =
                                      [original |-> p, corrected |-> v,
                                       confidence |-> "high",
                                       reason |-> <<"Added leading '", d, "'">>]

\* a document where one 7-digit candidate is corrected to a new value and
\* another one to a value that an 8-digit candidate had given
Wit_C4 ==
    /\ Returned
    /\ HasDominant
    /\ \E j, k \in 1..Len(Candidates) :
          /\ IsSevenDigits(Candidates[j]) /\ IsSevenDigits(Candidates[k])
          /\ Candidates[j][1] # dominantDigit
          /\ Candidates[k][1] # dominantDigit
          /\ CorrectedTo(Candidates[j], <<dominantDigit>> \o Candidates[j])
          /\ DuplicateOf(Candidates[k], <<dominantDigit>> \o Candidates[k])

----------------------------------------------------------------------------
(* C5: a 7-digit candidate whose first character is the dominant digit is  *)
(* invalid with a reason that contains "already starts with", and is never *)
(* auto-corrected: no autoCorrections entry, nothing added to accepted.    *)
Thm_C5 ==
    Returned =>
        \A k \in 1..Len(Candidates) :
            LET p == Candidates[k]
            IN  (IsSevenDigits(p) /\ HasDominant /\ p[1] = dominantDigit) =>
                    /\ InvalidWith(p, "7 digits - already starts with '")
                    /\ CorrectionsMatchAccepted
                    \* accepted holds the corrections and the 8-digit
                    \* candidates, nothing for p
                    /\ \A i \in 1..Len(results.accepted) :
                          \/ i <= Len(results.autoCorrections)
                          \/ \E j \in 1..Len(Candidates) :
                                Candidates[j] = results.accepted[i]

\* a 7-digit candidate that starts with the dominant digit, next to one that
\* does not and was corrected
Wit_C5 ==
    /\ Returned
    /\ HasDominant
    /\ \E j, k \in 1..Len(Candidates) :
          /\ IsSevenDigits(Candidates[j]) /\ IsSevenDigits(Candidates[k])
          /\ Candidates[k][1] = dominantDigit
          /\ InvalidEntries(Candidates[k]) # {}
          /\ CorrectionsOf(Candidates[j]) # {}

----------------------------------------------------------------------------
(* C6: the dominant digit that resolves the 7-digit candidates is the most *)
(* frequent first digit over all 8-digit candidates and all values the     *)
(* leading-zero correction produced, wherever they stand in the document;  *)
(* it exists only if that frequency is at least max(1, 0.3 x the number of *)
(* these values); without it every 7-digit candidate is invalid with the   *)
(* reason "7 digits - needs manual review".                                *)

\* the 8-digit candidates of the whole document
EightDigitCandidates == SelectSeq(Candidates, IsEightDigits)

\* the autoCorrections entries of the leading-zero correction
LeadingZeroCorrections ==
    SelectSeq(results.autoCorrections, LAMBDA a : IsPadded(a.original))

\* how many of these values start with the digit d
Frequency(d) ==
    Cardinality({i \in 1..Len(EightDigitCandidates) :
                    EightDigitCandidates[i][1] = d})
      + Cardinality({i \in 1..Len(LeadingZeroCorrections) :
                        LeadingZeroCorrections[i].corrected[1] = d})

HistogramSize == Len(EightDigitCandidates) + Len(LeadingZeroCorrections)

IsMostFrequent(d) == \A e \in Digits : Frequency(e) <= Frequency(d)

\* frequency >= max(1, 0.3 x size), in tenths
ReachesThreshold(d) ==
    Frequency(d) >= 1 /\ 10 * Frequency(d) >= 3 * HistogramSize

Thm_C6 ==
    (pc \in {"pending", "finalize", "done"} /\ HasSevenDigits) =>
        /\ HasDominant =>
              /\ dominantDigit \in Digits
              /\ IsMostFrequent(dominantDigit)
              /\ ReachesThreshold(dominantDigit)
        /\ ~HasDominant =>
              \A d \in Digits : IsMostFrequent(d) => ~ReachesThreshold(d)
        /\ Returned =>
              \A k \in 1..Len(Candidates) :
                  LET p == Candidates[k]
                      v == <<dominantDigit>> \o p
                  IN  IsSevenDigits(p) =>
                          IF ~HasDominant
                          THEN InvalidWith(p, "7 digits - needs manual review")
                          ELSE IF p[1] = dominantDigit
                          THEN InvalidWith(p, "7 digits - already starts with '")
                          ELSE CorrectedTo(p, v) \/ DuplicateOf(p, v)

\* four 8-digit candidates with four different first digits stand around a
\* 7-digit candidate: no digit reaches 30 %, the candidate is invalid
Wit_C6 ==
    /\ Returned
    /\ ~HasDominant
    /\ HistogramSize >= 4
    /\ \E k \in 2..Len(Candidates) :
          /\ IsSevenDigits(Candidates[k])
          /\ k < Len(Candidates)
          /\ InvalidWith(Candidates[k], "7 digits - needs manual review")

----------------------------------------------------------------------------
(* C7: every non-empty digit-string candidate has exactly one terminal     *)
(* classification: its own or its corrected value is in accepted, or the   *)
(* candidate is in excluded, or the candidate is in invalid; no value is   *)
(* in two of accepted / excluded / invalid, no candidate is in none.       *)

Values(entries) == {entries[i].value : i \in 1..Len(entries)}

\* the candidate c, or the value its correction gives, is in accepted
InAccepted(c) ==
    \/ c \in Range(results.accepted)
    \/ IsPadded(c) /\ ZeroStripped(c) \in Range(results.accepted)
    \/ /\ IsSevenDigits(c) /\ HasDominant /\ c[1] # dominantDigit
       /\ <<dominantDigit>> \o c \in Range(results.accepted)

InExcluded(c) == c \in Values(results.excluded)

InInvalid(c) == c \in Values(results.invalid)

Thm_C7 ==
    Returned =>
        /\ \A k \in 1..Len(Candidates) :
              LET c == Candidates[k]
              IN  IsDigitString(c) =>
                      /\ InAccepted(c) \/ InExcluded(c) \/ InInvalid(c)
                      /\ ~(InAccepted(c) /\ InExcluded(c))
                      /\ ~(InAccepted(c) /\ InInvalid(c))
                      /\ ~(InExcluded(c) /\ InInvalid(c))
        /\ Range(results.accepted) \cap Values(results.excluded) = {}
        /\ Range(results.accepted) \cap Values(results.invalid) = {}
        /\ Values(results.excluded) \cap Values(results.invalid) = {}

\* a document whose three candidates end in the three buckets, the accepted
\* one through a correction
Wit_C7 ==
    /\ Returned
    /\ \E i, j, k \in 1..Len(Candidates) :
          /\ IsPadded(Candidates[i]) /\ InAccepted(Candidates[i])
          /\ InExcluded(Candidates[j])
          /\ InInvalid(Candidates[k])

----------------------------------------------------------------------------
(* C8, as stated: every candidate value found more than once in the        *)
(* document has an entry in duplicates with its occurrence count and a     *)
(* reason, whichever bucket the value is in.                               *)

\* the values the extraction found more than once
RepeatedValues ==
    {v \in DOMAIN extractionResult.occurrenceCount :
        extractionResult.occurrenceCount[v] > 1}

DuplicateEntries(v) ==
    {i \in 1..Len(results.duplicates) : results.duplicates[i].value = v}

Orig_C8 ==
    Returned =>
        \A v \in RepeatedValues :
            (IsDigitString(v) /\ Len(v) \in 7..12) =>
            \E i \in DuplicateEntries(v) :
                /\ results.duplicates[i].count
                       = extractionResult.occurrenceCount[v]
                /\ results.duplicates[i].reason # <<>>

(* C8, amended: every 8-digit candidate value found more than once has an  *)
(* entry in duplicates with a count of 2 or more and a reason, the count   *)
(* being its occurrence count unless the entry was made for a corrected    *)
(* candidate; a repeated value of another length (excluded or invalid) has *)
(* no entry in duplicates.                                                 *)
Thm_C8 ==
    Returned =>
        \A v \in RepeatedValues :
            IF IsEightDigits(v)
            THEN /\ DuplicateEntries(v) # {}
                 /\ \A i \in DuplicateEntries(v) :
                       /\ results.duplicates[i].count >= 2
                       /\ results.duplicates[i].reason # <<>>
                       /\ \/ results.duplicates[i].count
                                = extractionResult.occurrenceCount[v]
                          \/ Head(results.duplicates[i].reason)
                                = "Corrected from "
            ELSE DuplicateEntries(v) = {}

\* an excluded value and an accepted value, each found twice: only the
\* accepted one is under duplicates
Wit_C8 ==
    /\ Returned
    /\ \E v, w \in RepeatedValues :
          /\ IsEightDigits(v) /\ DuplicateEntries(v) # {}
          /\ InExcluded(w) /\ DuplicateEntries(w) = {}

----------------------------------------------------------------------------
(* C9, as stated: a candidate of more than 10 digits that starts with "0"  *)
(* is auto-corrected when 8 digits follow its leading zeros, and is        *)
(* otherwise in excluded with the reason "<n> digits (excluded - likely    *)
(* Transport ID)", as a candidate of 9 or 10 digits is.                    *)

IsLongWithZero(c) == IsDigitString(c) /\ Len(c) > 10 /\ c[1] = "0"

\* the leading-zero correction took place for c, as a correction or as a
\* duplicate of an accepted value
AutoCorrected(c) ==
    \/ CorrectedTo(c, ZeroStripped(c))
    \/ DuplicateOf(c, ZeroStripped(c))

Orig_C9 ==
    Returned =>
        \A k \in 1..Len(Candidates) :
            LET c == Candidates[k]
            IN  IsLongWithZero(c) =>
                    IF Len(ZeroStripped(c)) = 8
                    THEN AutoCorrected(c)
                    ELSE \E i \in ExcludedEntries(c) :
                            results.excluded[i].reason =
                                <<ToString(Len(c)),
                                  " digits (excluded - likely Transport ID)">>

(* C9, amended: such a candidate is auto-corrected when 8 digits follow    *)
(* its leading zeros, as in the 9/10-digit case; otherwise it is in        *)
(* invalid with the reason "<n> digits (expected 8)", and not in excluded. *)
Thm_C9 ==
    Returned =>
        \A k \in 1..Len(Candidates) :
            LET c == Candidates[k]
            IN  IsLongWithZero(c) =>
                    IF Len(ZeroStripped(c)) = 8
                    THEN /\ AutoCorrected(c)
                         /\ ExcludedEntries(c) = {} /\ InvalidEntries(c) = {}
                    ELSE /\ Cardinality(InvalidEntries(c)) = 1
                         /\ \A i \in InvalidEntries(c) :
                               results.invalid[i].reason =
                                   <<ToString(Len(c)), " digits (expected 8)">>
                         /\ ExcludedEntries(c) = {}
                         /\ CorrectionsOf(c) = {}

\* an 11-digit candidate with 10 digits after its zero is invalid, next to
\* an 11-digit candidate that was corrected
Wit_C9 ==
    /\ Returned
    /\ \E j, k \in 1..Len(Candidates) :
          /\ IsLongWithZero(Candidates[j]) /\ IsLongWithZero(Candidates[k])
          /\ Len(ZeroStripped(Candidates[j])) = 8
          /\ CorrectionsOf(Candidates[j]) # {}
          /\ Len(ZeroStripped(Candidates[k])) # 8
          /\ InInvalid(Candidates[k])

----------------------------------------------------------------------------
(* C10: normalizeToken is idempotent, normalizeToken(normalizeToken(x)) =  *)
(* normalizeToken(x) for every argument x, null and the empty string       *)
(* (which give the empty string) included; a string of digits is returned  *)
(* unchanged.                                                              *)
Thm_C10 ==
    /\ pc = "renormalized" => twice = once
    /\ pc \in {"normalized", "renormalized"} =>
          /\ IsDigitString(raw) => once = raw
          /\ raw \in {NullToken, <<>>} => once = <<>>

\* an argument with a separator and a look-alike letter was normalized to
\* digits, and normalized again
Wit_C10 ==
    /\ pc = "renormalized"
    /\ raw # NullToken
    /\ "-" \in Range(raw)
    /\ "O" \in Range(raw)
    /\ once # <<>>
    /\ once # raw

----------------------------------------------------------------------------
(* Identifier shapes of src/CR.js.  An identifier (CR number) is a string  *)
(* of digits; the value null of a field that holds an identifier is        *)
(* NullToken.                                                              *)

\* CONFIG.patterns.EP1: /^1\d{7}$/
MatchesEP1(value) ==
    Len(value) = 8 /\ IsDigitString(value) /\ value[1] = "1"

\* CONFIG.patterns.H01: /^5\d{5}$/
MatchesH01(value) ==
    Len(value) = 6 /\ IsDigitString(value) /\ value[1] = "5"

isValidCR(value) == MatchesEP1(value) \/ MatchesH01(value)

getCRType(value) ==
    IF MatchesEP1(value) THEN "EP1"
    ELSE IF MatchesH01(value) THEN "H01"
    ELSE "UNKNOWN"

----------------------------------------------------------------------------
(* groupPagesByCR of src/CR.js.  The JavaScript index i of a page is the   *)
(* index i + 1 of the model.                                               *)

\* longest list of pages
MaxPages == 4

\* let currentGroup = null
NoGroup == [cr |-> NullToken, crType |-> Null, pages |-> <<>>]

\* if (page.cr)
HasCR(page) == page.cr # NullToken

\* currentGroup && currentGroup.pages.length > 0
IsOpen(group) == group # NoGroup /\ Len(group.pages) > 0

\* the pages the look-ahead loop reads after page i: j < i + 3
LookAheadPages == 2

\* the indices j of the loop "for (let j = i + 1; j < pages.length && j < i + 3; j++)"
LookAheadRange_Three(ps, i) == {j \in (i + 1)..(i + 3) : j <= Len(ps)}
LookAheadRange(ps, i) == {j \in (i + 1)..(i + LookAheadPages) : j <= Len(ps)}

\* let foundCR: the identifier of the first page of the range that has one
FoundCR(ps, i) ==
    LET bearing == {j \in LookAheadRange(ps, i) : HasCR(ps[j])}
    IN  IF bearing = {} THEN NullToken
        ELSE ps[CHOOSE j \in bearing : \A k \in bearing : j <= k].cr

\* a page with an identifier (lines 1074-1089)
PageWithCR(gs, cur, page) ==
    IF cur # NoGroup /\ cur.cr = page.cr
    THEN [groups |-> gs,
          currentGroup |-> [cur EXCEPT !.pages = Append(@, page)]]
    ELSE [groups |-> IF IsOpen(cur) THEN Append(gs, cur) ELSE gs,
          currentGroup |-> [cr |-> page.cr, crType |-> page.crType,
                            pages |-> <<page>>]]

\* a page without identifier (lines 1090-1118)
PageWithoutCR_Dropped(gs, cur, ps, i) == [groups |-> gs, currentGroup |-> cur]
PageWithoutCR(gs, cur, ps, i) ==
    IF IsOpen(cur)
    THEN [groups |-> gs,
          currentGroup |-> [cur EXCEPT !.pages = Append(@, ps[i])]]
    ELSE LET foundCR == FoundCR(ps, i)
         IN  IF foundCR # NullToken
             THEN [groups |-> gs,
                   currentGroup |-> [cr |-> foundCR,
                                     crType |-> getCRType(foundCR),
                                     pages |-> <<ps[i]>>]]
             ELSE [groups |-> gs, currentGroup |-> cur]

\* one iteration of the loop over pages
GroupOnePage(gs, cur, ps, i) ==
    IF HasCR(ps[i]) THEN PageWithCR(gs, cur, ps[i])
    ELSE PageWithoutCR(gs, cur, ps, i)

\* the index in the Map merged of the key cr, 0 if !merged.has(cr)
MergedIndex(m, cr) ==
    IF \E k \in 1..Len(m) : m[k].cr = cr
    THEN CHOOSE k \in 1..Len(m) : m[k].cr = cr
    ELSE 0

\* one iteration of the loop over groups (lines 1127-1133)
MergeOne(m, group) ==
    LET k == MergedIndex(m, group.cr)
    IN  IF k > 0 THEN [m EXCEPT ![k].pages = @ \o group.pages]
        ELSE Append(m, group)

RECURSIVE MergeFrom(_, _, _)
MergeFrom(m, gs, k) ==
    IF k > Len(gs) THEN m ELSE MergeFrom(MergeOne(m, gs[k]), gs, k + 1)

\* Array.from(merged.values()) after the loop over groups
MergeGroups_Unmerged(gs) == gs
MergeGroups(gs) == MergeFrom(<<>>, gs, 1)

\* the identifiers the pages of the model carry
CRValues ==
    { <<"5", "7", "7", "7", "7", "0">>,
      <<"5", "5", "4", "1", "3", "1">>,
      <<"1", "0", "1", "7", "6", "6", "6", "0">> }

\* the pages processFile builds from the identifiers found on them
MakePages(crs) ==
    [k \in 1..Len(crs) |->
        [pageNum |-> k, cr |-> crs[k],
         crType |-> IF crs[k] = NullToken THEN Null ELSE getCRType(crs[k])]]

PageLists ==
    {MakePages(crs) : crs \in SeqsUpTo({NullToken} \cup CRValues, MaxPages)}

\* the variables groupPagesByCR leaves alone
groupFrame == <<noteVars, normVars, verifyVars, locateVars, batchVars,
                toolVars>>

GroupInit ==
    /\ pages \in PageLists
    /\ pageI = 1
    /\ groups = <<>>
    /\ currentGroup = NoGroup
    /\ merged = <<>>
    /\ pc = "group"
    /\ ValidateIdle /\ NormIdle /\ VerifyIdle /\ LocateIdle /\ BatchIdle
    /\ ToolIdle

\* one iteration of "for (let i = 0; i < pages.length; i++)"
GroupPage ==
    /\ pc = "group"
    /\ pageI <= Len(pages)
    /\ LET next == GroupOnePage(groups, currentGroup, pages, pageI)
       IN  /\ groups' = next.groups
           /\ currentGroup' = next.currentGroup
    /\ pageI' = pageI + 1
    /\ UNCHANGED <<pc, groupFrame, pages, merged>>

\* after the loop: the open group is pushed (lines 1121-1123)
PushLastGroup ==
    /\ pc = "group"
    /\ pageI > Len(pages)
    /\ groups' = IF IsOpen(currentGroup) THEN Append(groups, currentGroup)
                 ELSE groups
    /\ pc' = "merge"
    /\ UNCHANGED <<groupFrame, pages, pageI, currentGroup, merged>>

\* the merge of the groups of one identifier, and the return
MergeAndReturn ==
    /\ pc = "merge"
    /\ merged' = MergeGroups(groups)
    /\ pc' = "grouped"
    /\ UNCHANGED <<groupFrame, pages, pageI, groups, currentGroup>>

GroupNext == GroupPage \/ PushLastGroup \/ MergeAndReturn

SpecGroup == GroupInit /\ [][GroupNext]_vars

----------------------------------------------------------------------------
(* Vocabulary of the properties of the page grouping *)

\* groupPagesByCR has returned
Grouped == pc = "grouped"

PageNumbers == 1..Len(pages)

\* page k bears an identifier
Bears(k) == pages[k].cr # NullToken

\* the identifier-bearing pages before page k
BearingBefore(k) == {j \in 1..(k - 1) : Bears(j)}

\* the nearest identifier-bearing page before page k
NearestBefore(k) ==
    CHOOSE j \in BearingBefore(k) : \A m \in BearingBefore(k) : m <= j

\* the identifier-bearing pages among the next two pages after page k
BearingAhead(k) == {j \in {k + 1, k + 2} : j \in PageNumbers /\ Bears(j)}

FirstAhead(k) ==
    CHOOSE j \in BearingAhead(k) : \A m \in BearingAhead(k) : j <= m

\* the places of the returned groups that hold page k
PlacesOf(k) ==
    {pl \in (1..Len(merged)) \X PageNumbers :
        /\ pl[2] <= Len(merged[pl[1]].pages)
        /\ merged[pl[1]].pages[pl[2]].pageNum = k}

\* the returned groups that hold page k
GroupsOf(k) == {pl[1] : pl \in PlacesOf(k)}

\* the returned groups that carry the identifier cr
GroupsCarrying(cr) == {g \in 1..Len(merged) : merged[g].cr = cr}

\* page k is in a group that carries cr, and in no other group
PlacedUnder(k, cr) ==
    GroupsOf(k) # {} /\ GroupsOf(k) \subseteq GroupsCarrying(cr)

\* the distinct identifiers detected on the pages
DetectedCRs == {pages[k].cr : k \in {j \in PageNumbers : Bears(j)}}

\* only page 1 bears an identifier
OnlyFirstBears ==
    Len(pages) >= 1 /\ Bears(1) /\ \A k \in 2..Len(pages) : ~Bears(k)

\* C13: a page without identifier that follows an identifier-bearing page
\* is in the group of the nearest preceding identifier-bearing page, and a
\* document whose only identifier is on page 1 yields one group holding all
\* its pages.
Thm_C13 ==
    Grouped =>
        /\ \A k \in PageNumbers :
              (~Bears(k) /\ BearingBefore(k) # {})
                  => PlacedUnder(k, pages[NearestBefore(k)].cr)
        /\ OnlyFirstBears =>
              /\ Len(merged) = 1
              /\ merged[1].cr = pages[1].cr
              /\ merged[1].pages = pages

\* a page without identifier follows two different identifiers and is
\* grouped
Wit_C13 ==
    /\ Grouped
    /\ \E k \in PageNumbers :
          /\ ~Bears(k)
          /\ Cardinality({pages[j].cr : j \in BearingBefore(k)}) = 2
          /\ GroupsOf(k) # {}

\* C14: a page without identifier and without identifier-bearing page
\* before it is grouped under the first identifier of the next two pages,
\* and is in no returned group exactly when neither of them bears one; every
\* other page is in a returned group.
Thm_C14 ==
    Grouped =>
        \A k \in PageNumbers :
            IF ~Bears(k) /\ BearingBefore(k) = {}
            THEN IF BearingAhead(k) = {}
                 THEN GroupsOf(k) = {}
                 ELSE PlacedUnder(k, pages[FirstAhead(k)].cr)
            ELSE GroupsOf(k) # {}

\* one leading page is dropped, a later leading page is grouped under the
\* identifier two pages ahead, and an identifier-bearing page is three pages
\* after the dropped one
Wit_C14 ==
    /\ Grouped
    /\ Len(pages) = 4
    /\ ~Bears(1) /\ ~Bears(2) /\ ~Bears(3) /\ Bears(4)
    /\ GroupsOf(1) = {}
    /\ GroupsOf(2) = {1}

\* C15: the returned groups carry pairwise different identifiers, there is
\* one group per distinct identifier detected on the pages, a page is in at
\* most one place of one group, and an identifier-bearing page is in the group
\* that carries its identifier.
Thm_C15 ==
    Grouped =>
        /\ \A g, h \in 1..Len(merged) : merged[g].cr = merged[h].cr => g = h
        /\ Len(merged) = Cardinality(DetectedCRs)
        /\ \A k \in PageNumbers : Cardinality(PlacesOf(k)) <= 1
        /\ \A k \in PageNumbers : Bears(k) => PlacedUnder(k, pages[k].cr)

\* an identifier reappears after another one (A, B, A) and the groups were
\* merged
Wit_C15 ==
    /\ Grouped
    /\ Len(pages) >= 3
    /\ Bears(1) /\ Bears(2) /\ Bears(3)
    /\ pages[1].cr = pages[3].cr
    /\ pages[1].cr # pages[2].cr
    /\ Len(groups) = 3
    /\ Len(merged) = 2

----------------------------------------------------------------------------
(* analyzeStampAndSignature of src/CR.js.  A density, a ratio and a        *)
(* threshold are numbers of thousandths: 250 is the 0.25 of the source.    *)
(* The densities and the stroke ratio that analyzeROI,                     *)
(* analyzeSignatureStrokes and analyzeDateField compute from the pixels of *)
(* the canvas are the inputs of the model.                                 *)

\* CONFIG.defaults.blueThreshold: 0.25
DefaultBlueThreshold == 250
\* CONFIG.defaults.signatureThreshold: 0.05
DefaultSignatureThreshold == 50
\* CONFIG.defaults.compDensityThreshold: 0.002
DefaultCompDensityThreshold == 2

\* config.x || CONFIG.defaults.x; a field that is absent (or 0) is 0
OrDefault(value, default) == IF value = 0 THEN default ELSE value

\* analyzeDateField: hasDate
HasDate(date) ==
    date.density > 300 \/ date.blackDensity > 100 \/ date.blueDensity > 100

\* analyzeSignatureStrokes, from the densities on (lines 675-687)
SignatureStrokes(m) ==
    LET hasSignaturePattern ==
            m.strokeRatio > 150 /\ m.darkStrokeDensity > 50
        hasBlackInkSignature == m.veryDarkDensity > 30
    IN  [darkStrokeDensity |-> m.darkStrokeDensity,
         strokeRatio |-> m.strokeRatio,
         hasSignaturePattern |-> hasSignaturePattern,
         hasBlackInkSignature |-> hasBlackInkSignature,
         confidence |-> IF hasBlackInkSignature THEN "high"
                        ELSE IF hasSignaturePattern THEN "medium"
                        ELSE "low"]

\* STAMP DETECTION (lines 764-773); x >= blueThreshold * 0.5 is
\* 2 * x >= blueThreshold
StampDetection(blueDensity, blueThreshold) ==
    IF blueDensity >= blueThreshold
    THEN [status |-> "PRESENT", confidence |-> "high"]
    ELSE IF 2 * blueDensity >= blueThreshold
    THEN [status |-> "UNCERTAIN", confidence |-> "low"]
    ELSE [status |-> "MISSING", confidence |-> "high"]

\* SIGNATURE DETECTION (lines 776-798); sigThreshold is read and not used
SignatureDetection(sa, sigThreshold) ==
    IF sa.hasBlackInkSignature
    THEN [status |-> "PRESENT", confidence |-> "high"]
    ELSE IF sa.hasSignaturePattern
    THEN [status |-> "PRESENT", confidence |-> sa.confidence]
    ELSE IF sa.darkStrokeDensity > 500 /\ sa.strokeRatio > 100
    THEN [status |-> "UNCERTAIN", confidence |-> "low"]
    ELSE [status |-> "MISSING", confidence |-> "high"]

\* Determine overall status (lines 803-816)
OverallStatus_MissingFirst(stampStatus, signatureStatus, hasDate) == IF stampStatus = "PRESENT" /\ signatureStatus = "PRESENT" THEN (IF hasDate THEN "COMPLETE" ELSE "DATE_MISSING") ELSE IF stampStatus = "MISSING" THEN "STAMP_MISSING" ELSE IF signatureStatus = "MISSING" THEN "SIGNATURE_MISSING" ELSE "NEEDS_REVIEW"
OverallStatus(stampStatus, signatureStatus, hasDate) ==
    IF stampStatus = "PRESENT" /\ signatureStatus = "PRESENT"
    THEN (IF hasDate THEN "COMPLETE" ELSE "DATE_MISSING")
    ELSE IF stampStatus = "MISSING" /\ signatureStatus = "MISSING"
    THEN "BOTH_MISSING"
    ELSE IF stampStatus = "UNCERTAIN" \/ signatureStatus = "UNCERTAIN"
    THEN "NEEDS_REVIEW"
    ELSE IF stampStatus = "MISSING" THEN "STAMP_MISSING"
    ELSE IF signatureStatus = "MISSING" THEN "SIGNATURE_MISSING"
    ELSE "NEEDS_REVIEW"

analyzeStampAndSignature(m, cfg) ==
    LET blueThreshold == OrDefault(cfg.blueThreshold, DefaultBlueThreshold)
        sigThreshold ==
            OrDefault(cfg.signatureThreshold, DefaultSignatureThreshold)
        compThreshold ==
            OrDefault(cfg.compDensityThreshold, DefaultCompDensityThreshold)
        hasDate == HasDate(m.date)
        stamp == StampDetection(m.blueDensity, blueThreshold)
        signature == SignatureDetection(SignatureStrokes(m), sigThreshold)
    IN  [overallStatus |->
             OverallStatus(stamp.status, signature.status, hasDate),
         stamp |-> stamp,
         signature |-> signature,
         date |-> [status |-> IF hasDate THEN "PRESENT" ELSE "MISSING"]]

\* what analyzeDateField measures: nothing, the three thresholds, more
DateMeasures ==
    { [density |-> 0, blackDensity |-> 0, blueDensity |-> 0],
      [density |-> 300, blackDensity |-> 100, blueDensity |-> 100],
      [density |-> 301, blackDensity |-> 0, blueDensity |-> 0],
      [density |-> 200, blackDensity |-> 101, blueDensity |-> 0],
      [density |-> 200, blackDensity |-> 0, blueDensity |-> 101] }

\* what the canvas measures: each value is 0, a threshold of the source or
\* the next value above it; a very dark pixel is a dark stroke pixel, and
\* the stroke ratio is 0 when there is no dark stroke pixel
Measures ==
    { m \in [blueDensity : {0, 124, 125, 249, 250, 500},
             darkStrokeDensity : {0, 50, 51, 500, 501, 900},
             veryDarkDensity : {0, 30, 31},
             strokeRatio : {0, 100, 101, 150, 151},
             date : DateMeasures] :
        /\ m.veryDarkDensity <= m.darkStrokeDensity
        /\ m.darkStrokeDensity = 0 => m.strokeRatio = 0 }

\* the config of onRun (roiHeight and roiThreshold are not read here)
Configs ==
    [blueThreshold : {0, 250, 500},
     signatureThreshold : {0, 50, 600},
     compDensityThreshold : {0}]

\* the variables analyzeStampAndSignature leaves alone
verifyFrame == <<noteVars, normVars, groupVars, locateVars, batchVars,
                 toolVars>>

VerifyInit ==
    /\ measure \in Measures
    /\ config \in Configs
    /\ verification = <<>>
    /\ pc = "analyze"
    /\ ValidateIdle /\ NormIdle /\ GroupIdle /\ LocateIdle /\ BatchIdle
    /\ ToolIdle

AnalyzeStampAndSignature ==
    /\ pc = "analyze"
    /\ verification' = analyzeStampAndSignature(measure, config)
    /\ pc' = "analyzed"
    /\ UNCHANGED <<verifyFrame, measure, config>>

VerifyNext == AnalyzeStampAndSignature

SpecVerify == VerifyInit /\ [][VerifyNext]_vars

----------------------------------------------------------------------------
(* Vocabulary of the properties of the stamp and signature verification *)

\* analyzeStampAndSignature has returned
Verified == pc = "analyzed"

StampStatus == verification.stamp.status
SignatureStatus == verification.signature.status
DatePresent == verification.date.status = "PRESENT"
Overall == verification.overallStatus

\* C16: overallStatus follows the decision table over the stamp status, the
\* signature status and the presence of the date; the date matters only
\* when stamp and signature are both present.
Thm_C16 ==
    Verified =>
        /\ StampStatus \in {"PRESENT", "UNCERTAIN", "MISSING"}
        /\ SignatureStatus \in {"PRESENT", "UNCERTAIN", "MISSING"}
        /\ (StampStatus = "PRESENT" /\ SignatureStatus = "PRESENT"
                /\ DatePresent) => Overall = "COMPLETE"
        /\ (StampStatus = "PRESENT" /\ SignatureStatus = "PRESENT"
                /\ ~DatePresent) => Overall = "DATE_MISSING"
        /\ (StampStatus = "MISSING" /\ SignatureStatus = "MISSING")
                => Overall = "BOTH_MISSING"
        /\ (StampStatus = "MISSING" /\ SignatureStatus = "PRESENT")
                => Overall = "STAMP_MISSING"
        /\ (StampStatus = "PRESENT" /\ SignatureStatus = "MISSING")
                => Overall = "SIGNATURE_MISSING"
        /\ (StampStatus = "UNCERTAIN" \/ SignatureStatus = "UNCERTAIN")
                => Overall = "NEEDS_REVIEW"

\* the stamp is missing, the signature is uncertain and the date is there
Wit_C16 ==
    /\ Verified
    /\ StampStatus = "MISSING"
    /\ SignatureStatus = "UNCERTAIN"
    /\ DatePresent
    /\ Overall = "NEEDS_REVIEW"

\* CONFIG.defaults.signatureStrokeThreshold: 0.03
DefaultSignatureStrokeThreshold == 30
\* CONFIG.defaults.signatureEdgeRatio: 0.15
DefaultSignatureEdgeRatio == 150

\* the signature thresholds the configuration supplies: onRun passes
\* signatureThreshold, the other two fall back to the defaults
ConfiguredSignatureThreshold ==
    OrDefault(config.signatureThreshold, DefaultSignatureThreshold)

\* the decision "signature present" taken against the configured thresholds
PresentByConfiguration ==
    \/ measure.veryDarkDensity > DefaultSignatureStrokeThreshold
    \/ /\ measure.strokeRatio > DefaultSignatureEdgeRatio
       /\ measure.darkStrokeDensity > ConfiguredSignatureThreshold

\* C17: the signature is reported present exactly when the very-dark-ink
\* density, or the stroke ratio together with the dark-ink density, exceed
\* the thresholds of the configuration (the defaults where it gives none).
Orig_C17 ==
    Verified => (SignatureStatus = "PRESENT" <=> PresentByConfiguration)

----------------------------------------------------------------------------
(* findCRsOnText of src/CR.js.  A text is a sequence of characters, the    *)
(* line feed being "\n" and the a with diaeresis (U+00E4) "a-umlaut".  A   *)
(* position is the index of a character of the sequence, from 1: the       *)
(* JavaScript index plus one; 0 stands for "no match".                     *)

UpperLetters ==
    <<"A", "B", "C", "D", "E", "F", "G", "H", "I", "J", "K", "L", "M", "N",
      "O", "P", "Q", "R", "S", "T", "U", "V", "W", "X", "Y", "Z">>

LowerLetters ==
    <<"a", "b", "c", "d", "e", "f", "g", "h", "i", "j", "k", "l", "m", "n",
      "o", "p", "q", "r", "s", "t", "u", "v", "w", "x", "y", "z">>

\* [A-Za-z]
Letters == Range(UpperLetters) \cup Range(LowerLetters)

\* \w
WordChars == Letters \cup Digits \cup {"_"}

\* the character as the flag i compares it
LowerOf(c) ==
    IF c \in Range(UpperLetters)
    THEN LowerLetters[CHOOSE k \in 1..26 : UpperLetters[k] = c]
    ELSE c

\* the first position from pos on whose character is not in class
RECURSIVE SkipClass(_, _, _)
SkipClass(s, pos, class) ==
    IF pos <= Len(s) /\ s[pos] \in class THEN SkipClass(s, pos + 1, class)
    ELSE pos

\* s.substring(from - 1, to): the characters at the positions from..to
Substring(s, from, to) ==
    SubSeq(s, from, IF to > Len(s) THEN Len(s) ELSE to)

\* the position is at a word boundary, \b
AtBoundary(s, pos) ==
    (pos > 1 /\ pos - 1 <= Len(s) /\ s[pos - 1] \in WordChars)
        # (pos <= Len(s) /\ s[pos] \in WordChars)

\* the elements of a pattern that are no literal character: the class they
\* repeat and the least and the greatest number of repetitions (0: no limit)
Repeats(element) ==
    CASE element = "\\s*" -> [class |-> Whitespace, min |-> 0, max |-> 0]
      [] element = "\\s+" -> [class |-> Whitespace, min |-> 1, max |-> 0]
      [] element = "\\d+" -> [class |-> Digits, min |-> 1, max |-> 0]
      [] element = "\\d{6}" -> [class |-> Digits, min |-> 6, max |-> 6]
      [] element = "\\d{9,}" -> [class |-> Digits, min |-> 9, max |-> 0]
      [] element = "\\w+" -> [class |-> WordChars, min |-> 1, max |-> 0]
      [] element = "[a-z]+" -> [class |-> Letters, min |-> 1, max |-> 0]
      [] element = "\\.?" -> [class |-> {"."}, min |-> 0, max |-> 1]
      [] element = ":?" -> [class |-> {":"}, min |-> 0, max |-> 1]
      [] element = "[a|a-umlaut]" ->
             [class |-> {"a", "A", "a-umlaut"}, min |-> 1, max |-> 1]
      [] element = "[a|a-umlaut]?" ->
             [class |-> {"a", "A", "a-umlaut"}, min |-> 0, max |-> 1]
      [] element = "t?" -> [class |-> {"t", "T"}, min |-> 0, max |-> 1]
      [] element = "i?" -> [class |-> {"i", "I"}, min |-> 0, max |-> 1]
      [] element = "g?" -> [class |-> {"g", "G"}, min |-> 0, max |-> 1]
      [] element = "u?" -> [class |-> {"u", "U"}, min |-> 0, max |-> 1]
      [] element = "n?" -> [class |-> {"n", "N"}, min |-> 0, max |-> 1]
      [] element = "[:|\\-\\s]*" ->
             [class |-> Whitespace \cup {":", "|", "-"}, min |-> 0, max |-> 0]
      [] element = "\\[?" -> [class |-> {"["}, min |-> 0, max |-> 1]
      [] OTHER -> [class |-> {}, min |-> 0, max |-> 0]

\* found, or other if nothing was found: the arrays of the source that
\* are returned as soon as they are not empty
OrElse(found, other) == IF found # <<>> THEN found ELSE other

\* the first of a set of positions a pattern is tried at, 0 if the set is
\* empty
FirstFrom(S) == IF S = {} THEN 0 ELSE CHOOSE i \in S : \A j \in S : i <= j

\* the position after the greedy match of the repetition r at pos, 0 if
\* the class is not repeated r.min times there
MatchRepeat(r, s, pos) ==
    LET run == SkipClass(s, pos, r.class)
        to == IF r.max > 0 /\ run > pos + r.max THEN pos + r.max ELSE run
    IN  IF to - pos >= r.min THEN to ELSE 0

\* the position after the match of one element of a pattern at pos, 0 if
\* it does not match there: "\\b", a repetition, or a literal character in
\* lower case, compared as the flag i does
MatchElement(element, s, pos) ==
    IF element = "\\b" THEN IF AtBoundary(s, pos) THEN pos ELSE 0
    ELSE IF Repeats(element).class # {}
    THEN MatchRepeat(Repeats(element), s, pos)
    ELSE IF pos <= Len(s) /\ LowerOf(s[pos]) = element THEN pos + 1
    ELSE 0

\* The match of a pattern, a sequence of elements, at a position: the
\* position after the match, 0 if the elements from k on do not match at
\* pos.  A repetition is greedy; in the patterns of the source the element
\* after a repetition never matches a character of its class, so the
\* greedy match is the only one.
RECURSIVE MatchFrom(_, _, _, _)
MatchFrom(pat, k, s, pos) ==
    IF k > Len(pat) THEN pos
    ELSE LET to == MatchElement(pat[k], s, pos)
         IN  IF to = 0 THEN 0 ELSE MatchFrom(pat, k + 1, s, to)

\* the positions after the matches of an anchor whose pattern ends before
\* position e, the preferred one first: with the optional group, then
\* without it
GroupEnds(anchor, s, e) ==
    IF e = 0 THEN <<>>
    ELSE IF anchor.opt = <<>> THEN <<e>>
    ELSE LET g == MatchFrom(anchor.opt, 1, s, e)
         IN  IF g > 0 THEN <<g, e>> ELSE <<e>>

\* An anchor is a pattern followed by an optional group, (?:...)?.  The
\* positions after its matches at pos.
AnchorEnds(anchor, s, pos) ==
    GroupEnds(anchor, s, MatchFrom(anchor.pat, 1, s, pos))

\* (?:\s+Nr\.?)?
OptionalNr == <<"\\s+", "n", "r", "\\.?">>

\* /No\.?\s*of\s*confirmation\s*of\s*receipt/i
NoOfConfirmationOfReceipt ==
    [pat |->
        <<"n", "o", "\\.?", "\\s*", "o", "f", "\\s*", "c", "o", "n", "f",
          "i", "r", "m", "a", "t", "i", "o", "n", "\\s*", "o", "f", "\\s*",
          "r", "e", "c", "e", "i", "p", "t">>,
     opt |-> <<>>]

\* /confirmation\s*of\s*receipt/i
ConfirmationOfReceipt ==
    [pat |->
        <<"c", "o", "n", "f", "i", "r", "m", "a", "t", "i", "o", "n", "\\s*",
          "o", "f", "\\s*", "r", "e", "c", "e", "i", "p", "t">>,
     opt |-> <<>>]

\* /Gelangensbestätigung(?:\s+Nr\.?)?/i
Gelangensbestaetigung ==
    [pat |->
        <<"g", "e", "l", "a", "n", "g", "e", "n", "s", "b", "e", "s", "t",
          "a-umlaut", "t", "i", "g", "u", "n", "g">>,
     opt |-> OptionalNr]

\* /Bestätigung(?:\s+Nr\.?)?/i
Bestaetigung ==
    [pat |-> <<"b", "e", "s", "t", "a-umlaut", "t", "i", "g", "u", "n", "g">>,
     opt |-> OptionalNr]

\* /Gelangen/i
Gelangen ==
    [pat |-> <<"g", "e", "l", "a", "n", "g", "e", "n">>, opt |-> <<>>]

\* rx.exec(s) of an anchor: the first position the anchor matches at, and
\* the position after the match; index 0 if there is none
AnchorExecAt(anchor, s, at) ==
    \* the match of the anchor that starts at position at
    IF at = 0 THEN [index |-> 0, end |-> 0]
    ELSE [index |-> at, end |-> AnchorEnds(anchor, s, at)[1]]

AnchorExec(anchor, s, pos) ==
    AnchorExecAt(anchor, s,
                 FirstFrom({at \in pos..Len(s) :
                               AnchorEnds(anchor, s, at) # <<>>}))

\* one pass of s.replace(/(\d)\s+(\d)/g, '$1$2'), from pos on
RECURSIVE JoinDigits(_, _)
JoinDigits(s, pos) ==
    IF pos > Len(s) THEN <<>>
    ELSE LET q == SkipClass(s, pos + 1, Whitespace)
         IN  IF /\ s[pos] \in Digits
                /\ q > pos + 1
                /\ q <= Len(s)
                /\ s[q] \in Digits
             THEN <<s[pos], s[q]>> \o JoinDigits(s, q + 1)
             ELSE <<s[pos]>> \o JoinDigits(s, pos + 1)

\* normalizeOCRText: the texts of the model hold no carriage return
normalizeOCRText(t) ==
    JoinDigits(JoinDigits(JoinDigits(t, 1), 1), 1)

\* [0-9OIlSsQBG\s] under the flag i
CaptureClass ==
    Digits \cup Whitespace
        \cup {"O", "o", "I", "i", "L", "l", "S", "s", "Q", "q", "B", "b",
              "G", "g"}

\* [:\s\-]
SeparatorClass == Whitespace \cup {":", "-"}

\* A direct pattern is an anchor, [:\s\-]*, the group ([...]{4,14}) and a
\* tail.  The ways to match the rest of it after an anchor that ends
\* before position e: <<start, length>> of the captured group.  The
\* characters the separators give back are captured.
CaptureChoices(direct, s, e) ==
    LET sepEnd == SkipClass(s, e, SeparatorClass)
    IN  {c \in (e..sepEnd) \X (4..14) :
            /\ c[1] + c[2] - 1 <= Len(s)
            /\ \A j \in c[1]..(c[1] + c[2] - 1) : s[j] \in CaptureClass
            /\ MatchFrom(direct.tail, 1, s, c[1] + c[2]) > 0}

\* the group captured by the match the engine finds first: the longest
\* run of separators, then the longest group; <<>> if there is no choice
FirstCapture(s, choices) ==
    IF choices = {} THEN <<>>
    ELSE LET c == CHOOSE c \in choices :
                     \A d \in choices :
                         d[1] < c[1] \/ (d[1] = c[1] /\ d[2] <= c[2])
         IN  SubSeq(s, c[1], c[1] + c[2] - 1)

\* the group captured by the match of the direct pattern whose anchor
\* ends at one of ends, <<>> if the pattern does not match there
CaptureAt(direct, s, ends) ==
    IF ends = <<>> THEN <<>>
    ELSE OrElse(FirstCapture(s, CaptureChoices(direct, s, ends[1])),
                IF Len(ends) < 2 THEN <<>>
                ELSE FirstCapture(s, CaptureChoices(direct, s, ends[2])))

\* match[1] of rx.exec(s) for a direct pattern, <<>> if there is no match
DirectExecAt(direct, s, at) ==
    \* the group of the direct pattern matched at position at
    IF at = 0 THEN <<>>
    ELSE CaptureAt(direct, s, AnchorEnds(direct.anchor, s, at))

DirectExec(direct, s, pos) ==
    DirectExecAt(direct, s,
                 FirstFrom({at \in pos..Len(s) :
                               DirectExecAt(direct, s, at) # <<>>}))

\* const directPatterns
directPatterns ==
    << [anchor |-> NoOfConfirmationOfReceipt, tail |-> <<>>],
       [anchor |-> ConfirmationOfReceipt,
        tail |-> <<"\\s*", "f", "r", "o", "m">>],
       [anchor |-> Gelangensbestaetigung, tail |-> <<>>] >>

\* the array returned for match[1] of a direct pattern, <<>> when the
\* loop goes on (lines 301-315)
DirectMatch(found) ==
    IF found # <<>> /\ isValidCR(normalizeToken(found))
    THEN << [value |-> normalizeToken(found),
             type |-> getCRType(normalizeToken(found)),
             raw |-> found,
             source |-> "direct_anchor",
             confidence |-> "high"] >>
    ELSE <<>>

\* PRIORITY 1: the direct patterns on the normalized text (k = 1, 2, 3),
\* then on the text (k = 4, 5, 6), from the k-th step of the two loops on
RECURSIVE DirectAnchor(_, _, _)
DirectAnchor(t, normalizedText, k) ==
    IF k > 6 THEN <<>>
    ELSE OrElse(DirectMatch(
                    DirectExec(directPatterns[((k - 1) % 3) + 1],
                               IF k <= 3 THEN normalizedText ELSE t, 1)),
                DirectAnchor(t, normalizedText, k + 1))

\* the least element of a set of positions, 0 if the set is empty
Least(S) == IF S = {} THEN 0 ELSE CHOOSE i \in S : \A j \in S : i <= j

\* the positions of the matches of /\b(5\d{5})\b/ (lead "5", n = 6) and of
\* /\b(1\d{7})\b/ (lead "1", n = 8) in s
NumberMatches(s, lead, n) ==
    {i \in 1..Len(s) :
        /\ i + n - 1 <= Len(s)
        /\ s[i] = lead
        /\ \A j \in (i + 1)..(i + n - 1) : s[j] \in Digits
        /\ AtBoundary(s, i)
        /\ AtBoundary(s, i + n)}

\* /^\s+[A-Za-z...]{2,}/i.test(after); the letters with diacritics of the
\* class are not in the texts of the model
LooksLikePostalCode(after) ==
    LET q == SkipClass(after, 1, Whitespace)
    IN  /\ q > 1
        /\ q + 1 <= Len(after)
        /\ after[q] \in Letters
        /\ after[q + 1] \in Letters

\* the object returned for a number found in a window after an anchor
NearAnchorMatch_TypeOfAnchor(found, type) == << [value |-> normalizeToken(found), type |-> "H01", raw |-> found, source |-> "near_anchor", confidence |-> "high"] >>
NearAnchorMatch(found, type) ==
    << [value |-> normalizeToken(found), type |-> type, raw |-> found,
        source |-> "near_anchor", confidence |-> "high"] >>

\* The body of the loops over strictAnchors and broadAnchors after
\* anchorRx.exec returned m, for a window of the given length after the
\* match, with or without the postal-code test: the returned array, <<>>
\* when the loop goes on to the next anchor.
WindowMatch(normalizedText, m, window, postalCheck) ==
    LET win == Substring(normalizedText, m.end, m.end + window - 1)
        h == Least(NumberMatches(win, "5", 6))
        e == Least(NumberMatches(win, "1", 8))
    IN  IF m.index = 0 THEN <<>>
        ELSE IF /\ h > 0
                /\ ~(/\ postalCheck
                     /\ LooksLikePostalCode(
                            Substring(normalizedText, m.end + h + 5,
                                      m.end + h + 54)))
                /\ isValidCR(normalizeToken(SubSeq(win, h, h + 5)))
        THEN NearAnchorMatch(SubSeq(win, h, h + 5), "H01")
        ELSE IF e > 0 /\ isValidCR(normalizeToken(SubSeq(win, e, e + 7)))
        THEN NearAnchorMatch(SubSeq(win, e, e + 7), "EP1")
        ELSE <<>>

NearAnchor(normalizedText, anchor, window, postalCheck) ==
    WindowMatch(normalizedText, AnchorExec(anchor, normalizedText, 1),
                window, postalCheck)

\* PRIORITY 2: the loop over strictAnchors (window 50, no postal test)
StrictAnchors(normalizedText) ==
    OrElse(NearAnchor(normalizedText, NoOfConfirmationOfReceipt, 50, FALSE),
           OrElse(NearAnchor(normalizedText, Gelangensbestaetigung, 50,
                             FALSE),
                  NearAnchor(normalizedText, Bestaetigung, 50, FALSE)))

\* PRIORITY 3: the loop over broadAnchors (window 100, postal test)
BroadAnchors(normalizedText) ==
    OrElse(NearAnchor(normalizedText, ConfirmationOfReceipt, 100, TRUE),
           NearAnchor(normalizedText, Gelangen, 100, TRUE))

\* pattern.test(s): the pattern matches somewhere in s
Test(pat, s) == \E pos \in 1..(Len(s) + 1) : MatchFrom(pat, 1, s, pos) > 0

\* s.match(pattern)[0]: the text of the first match of the pattern in s
FirstMatchText(pat, s) ==
    LET first == Least({pos \in 1..(Len(s) + 1) :
                           MatchFrom(pat, 1, s, pos) > 0})
    IN  SubSeq(s, first, MatchFrom(pat, 1, s, first) - 1)

\* whole.includes(part)
Includes(whole, part) ==
    \E pos \in 1..(Len(whole) - Len(part) + 1) :
        SubSeq(whole, pos, pos + Len(part) - 1) = part

\* const EXCLUSION_CONTEXT_PATTERNS
EXCLUSION_CONTEXT_PATTERNS ==
    << <<"\\b", "s", "t", "r", ".", "\\s*", "d", "e", "\\s*", "\\d+">>,
       <<"\\b", "\\d{6}", "\\s+", "\\w+", "\\b">>,
       <<"\\b", "d", "e", "\\d{9,}">>,
       <<"\\b", "p", "a", "g", "e", ":?", "\\s*", "\\d+">> >>

\* isInExclusionContext(t, matchIndex, matchValue), the match being at
\* position at; the letters with diacritics of postalPattern are not in the
\* texts of the model
isInExclusionContext(t, at, matchValue) ==
    LET from == IF at - 100 < 1 THEN 1 ELSE at - 100
        context == Substring(t, from, at + Len(matchValue) + 99)
        postalPattern == <<"\\b">> \o matchValue \o <<"\\s+", "[a-z]+", "\\b">>
    IN  \/ Test(postalPattern, context)
        \/ \E k \in 1..Len(EXCLUSION_CONTEXT_PATTERNS) :
              /\ Test(EXCLUSION_CONTEXT_PATTERNS[k], context)
              /\ Includes(FirstMatchText(EXCLUSION_CONTEXT_PATTERNS[k],
                                         context), matchValue)

\* hasAnchorNearby for a match at position at:
\* /confirmation|receipt|Gelangen|bestätigung/i on the 200 characters before
HasAnchorNearby(normalizedText, at) ==
    LET from == IF at - 200 < 1 THEN 1 ELSE at - 200
        nearbyContext == Substring(normalizedText, from, at - 1)
    IN  \/ Test(<<"c", "o", "n", "f", "i", "r", "m", "a", "t", "i", "o", "n">>,
                nearbyContext)
        \/ Test(<<"r", "e", "c", "e", "i", "p", "t">>, nearbyContext)
        \/ Test(Gelangen.pat, nearbyContext)
        \/ Test(Bestaetigung.pat, nearbyContext)

\* the object pushed onto globalCandidates for the match at position at
GlobalCandidate(normalizedText, at, n, type, confidence) ==
    [value |-> normalizeToken(SubSeq(normalizedText, at, at + n - 1)),
     type |-> type,
     raw |-> SubSeq(normalizedText, at, at + n - 1),
     source |-> "global",
     confidence |-> confidence]

\* the array the global search returns for the positions h01 and ep1 of
\* the candidates of either shape (lines 454-498)
GlobalFirst(normalizedText, h01, ep1) ==
    LET h01WithAnchor == {at \in h01 : HasAnchorNearby(normalizedText, at)}
    IN  IF h01WithAnchor # {}
        THEN << GlobalCandidate(normalizedText, Least(h01WithAnchor), 6,
                                "H01", "medium") >>
        ELSE IF h01 # {}
        THEN << GlobalCandidate(normalizedText, Least(h01), 6, "H01",
                                "low") >>
        ELSE IF ep1 # {}
        THEN << GlobalCandidate(normalizedText, Least(ep1), 8, "EP1",
                                "medium") >>
        ELSE <<>>

\* PRIORITY 4: the global search.  The positions of the matches that are
\* pushed onto globalCandidates stand for the candidates, in their order.
GlobalSearch(normalizedText) ==
    GlobalFirst(normalizedText,
        {at \in NumberMatches(normalizedText, "5", 6) :
            /\ isValidCR(normalizeToken(SubSeq(normalizedText, at, at + 5)))
            /\ ~isInExclusionContext(normalizedText, at,
                                     SubSeq(normalizedText, at, at + 5))
            /\ ~LooksLikePostalCode(
                   Substring(normalizedText, at + 6, at + 55))},
        {at \in NumberMatches(normalizedText, "1", 8) :
            /\ isValidCR(normalizeToken(SubSeq(normalizedText, at, at + 7)))
            /\ HasAnchorNearby(normalizedText, at)
            /\ ~isInExclusionContext(normalizedText, at,
                                     SubSeq(normalizedText, at, at + 7))})

\* the priorities of findCRsOnText, on the text and the normalized text
FindOn(t, normalizedText) ==
    OrElse(DirectAnchor(t, normalizedText, 1),
           OrElse(StrictAnchors(normalizedText),
                  OrElse(BroadAnchors(normalizedText),
                         GlobalSearch(normalizedText))))

\* findCRsOnText(t); the field index of a match is left out
findCRsOnText(t) ==
    IF t = <<>> THEN <<>> ELSE FindOn(t, normalizeOCRText(t))

\* most pieces a text of the model is made of
MaxPieces == 3

\* "No. of confirmation of receipt"
LabelPiece ==
    <<"N", "o", ".", " ", "o", "f", " ", "c", "o", "n", "f", "i", "r", "m",
      "a", "t", "i", "o", "n", " ", "o", "f", " ", "r", "e", "c", "e", "i",
      "p", "t">>

\* " 577770"
NumberPiece ==
    <<" ", "5", "7", "7", "7", "7", "0">>

\* an address line that starts with its postal code
PostalFirstBlock ==
    <<"\n", "5", "0", "7", "0", "7", "5", " ", "G", "h", "i", "m", "b", "a",
      "v", "\n">>

\* an address line that starts with a house number
HouseFirstBlock ==
    <<"\n", "1", "2", " ", "C", "a", "l", "e", "a", " ", "5", "5", "0", "1",
      "2", "3", " ", "S", "i", "b", "i", "u", "\n">>

\* the pieces of the texts: the phrases and numbers of the test cases of
\* src/app.js (lines 1960-2030), a number as OCR reads it, and address lines
Pieces ==
    { LabelPiece, NumberPiece, PostalFirstBlock, HouseFirstBlock,
      \* "Gelangensbest\u00e4tigung Nr."
      <<"G", "e", "l", "a", "n", "g", "e", "n", "s", "b", "e", "s", "t",
        "a-umlaut", "t", "i", "g", "u", "n", "g", " ", "N", "r", ".">>,
      \* " 5 7 7 7 7 0", as OCR reads it
      <<" ", "5", " ", "7", " ", "7", " ", "7", " ", "7", " ", "0">>,
      \* " S7777O", as OCR reads " 577770"
      <<" ", "S", "7", "7", "7", "7", "O">>,
      \* " 10176660"
      <<" ", "1", "0", "1", "7", "6", "6", "6", "0">>,
      \* " 477770": a number of neither shape
      <<" ", "4", "7", "7", "7", "7", "0">>,
      \* " from date"
      <<" ", "f", "r", "o", "m", " ", "d", "a", "t", "e">> }

\* the pieces of a sequence of pieces, joined
RECURSIVE Concat(_)
Concat(parts) ==
    IF parts = <<>> THEN <<>> ELSE Head(parts) \o Concat(Tail(parts))

\* the texts of the model
Texts == {Concat(parts) : parts \in SeqsUpTo(Pieces, MaxPieces)}

\* the variables findCRsOnText leaves alone
locateFrame == <<noteVars, normVars, groupVars, verifyVars, batchVars,
                 toolVars>>

LocateInit ==
    /\ text \in Texts
    /\ crMatches = <<>>
    /\ pc = "locate"
    /\ ValidateIdle /\ NormIdle /\ GroupIdle /\ VerifyIdle /\ BatchIdle
    /\ ToolIdle

\* const rawCandidates = findCRsOnText(text)
FindCRs ==
    /\ pc = "locate"
    /\ crMatches' = findCRsOnText(text)
    /\ pc' = "located"
    /\ UNCHANGED <<locateFrame, text>>

LocateNext == FindCRs

SpecLocate == LocateInit /\ [][LocateNext]_vars

----------------------------------------------------------------------------
(* Vocabulary of the properties of the identifier locator *)

\* findCRsOnText has returned
Located == pc = "located"

\* ^1\d{7}$
HasLongShape(v) ==
    Len(v) = 8 /\ v[1] = "1" /\ \A k \in 1..Len(v) : v[k] \in Digits

\* ^5\d{5}$
HasShortShape(v) ==
    Len(v) = 6 /\ v[1] = "5" /\ \A k \in 1..Len(v) : v[k] \in Digits

\* the characters of a token: digits, O I l S s Q B G and whitespace
TokenChars ==
    Digits \cup Whitespace \cup {"O", "I", "l", "S", "s", "Q", "B", "G"}

\* the text holds a token that is valid after normalization
HasValidToken ==
    \E i \in 1..Len(text) :
        /\ text[i] \in TokenChars \ Whitespace
        /\ \E j \in i..(SkipClass(text, i, TokenChars) - 1) :
              LET v == normalizeToken(SubSeq(text, i, j))
              IN  HasLongShape(v) \/ HasShortShape(v)

\* C11: findCRsOnText returns at most one match; the normalized value of a
\* match has the 8-digit or the 6-digit shape, its type is EP1 exactly for
\* the 8-digit shape and H01 exactly for the 6-digit shape; a text without
\* valid token gives the empty list.
Thm_C11 ==
    Located =>
        /\ Len(crMatches) <= 1
        /\ \A k \in 1..Len(crMatches) :
              LET v == normalizeToken(crMatches[k].value)
              IN  /\ HasLongShape(v) \/ HasShortShape(v)
                  /\ crMatches[k].type = "EP1" <=> HasLongShape(v)
                  /\ crMatches[k].type = "H01" <=> HasShortShape(v)
        /\ ~HasValidToken => crMatches = <<>>

\* an 8-digit identifier is found in the window after the label, no direct
\* pattern having captured it
Wit_C11 ==
    /\ Located
    /\ Len(crMatches) = 1
    /\ crMatches[1].type = "EP1"
    /\ crMatches[1].source = "near_anchor"

\* "577770"
LabelledNumber == <<"5", "7", "7", "7", "7", "0">>

\* the postal codes of the address lines
PostalCodes ==
    { <<"5", "0", "7", "0", "7", "5">>, <<"5", "5", "0", "1", "2", "3">> }

AddressBlocks == {PostalFirstBlock, HouseFirstBlock}

\* "No. of confirmation of receipt 577770" is immediately followed by an
\* address block
LabelThenAddress ==
    \E block \in AddressBlocks :
        Includes(text, LabelPiece \o NumberPiece \o block)

\* an address block immediately precedes the label and its number
AddressThenLabel ==
    \E block \in AddressBlocks :
        Includes(text, block \o LabelPiece \o NumberPiece)

\* C12: for a text in which "No. of confirmation of receipt 577770" is
\* immediately followed by an address block with a 6-digit postal code,
\* findCRsOnText returns 577770; it returns no postal code, be the address
\* block after or before the label.
Orig_C12 ==
    Located =>
        /\ LabelThenAddress =>
              /\ Len(crMatches) = 1
              /\ crMatches[1].value = LabelledNumber
        /\ (LabelThenAddress \/ AddressThenLabel) =>
              \A k \in 1..Len(crMatches) :
                  crMatches[k].value \notin PostalCodes

----------------------------------------------------------------------------
(* processFile and handleSignedPDF of src/CR.js.  A file of the model is   *)
(* what the libraries read from it: whether it loads, whether it carries   *)
(* a digital signature, the text of each page, whether a page renders to   *)
(* a canvas, and what the canvas of a last page measures.  A file name is  *)
(* the sequence of its stem and its extension.                             *)

\* the texts of the pages: no text, the label with a short identifier, the
\* label with a long identifier
PageTexts ==
    { <<>>,
      LabelPiece \o NumberPiece,
      LabelPiece \o <<" ", "1", "0", "1", "7", "6", "6", "6", "0">> }

\* chooseValidCRs(candidates, relax)
chooseValidCRs(candidates) ==
    LET valid == SelectSeq(candidates, LAMBDA c : isValidCR(c.value))
        highConf == SelectSeq(valid, LAMBDA c : c.confidence = "high")
        medConf == SelectSeq(valid, LAMBDA c : c.confidence = "medium")
    IN  IF highConf # <<>> THEN highConf
        ELSE IF medConf # <<>> THEN medConf
        ELSE valid

\* const candidates of the loop over the pages, for each text of PageTexts
PageCandidates == [t \in PageTexts |-> chooseValidCRs(findCRsOnText(t))]

\* STEP 1 of processFile: the array pages
ExtractPages(texts) ==
    [k \in 1..Len(texts) |->
        LET candidates == PageCandidates[texts[k]]
        IN  [pageNum |-> k,
             text |-> texts[k],
             cr |-> IF Len(candidates) = 1 THEN candidates[1].value
                    ELSE NullToken,
             crType |-> IF Len(candidates) = 1 THEN candidates[1].type
                        ELSE Null]]

\* the loop over the pages of groupPagesByCR, from page i on
RECURSIVE GroupFrom(_, _, _, _)
GroupFrom(gs, cur, ps, i) ==
    IF i > Len(ps) THEN IF IsOpen(cur) THEN Append(gs, cur) ELSE gs
    ELSE LET next == GroupOnePage(gs, cur, ps, i)
         IN  GroupFrom(next.groups, next.currentGroup, ps, i + 1)

groupPagesByCR(ps) == MergeGroups(GroupFrom(<<>>, NoGroup, ps, 1))

\* parts.join(separator), the parts being strings
RECURSIVE Join(_, _)
Join(parts, separator) ==
    IF parts = <<>> THEN <<>>
    ELSE IF Len(parts) = 1 THEN parts[1]
    ELSE parts[1] \o separator \o Join(Tail(parts), separator)

\* group.pages.map(p => p.pageNum).join('-')
PageRange(group) ==
    Join([k \in 1..Len(group.pages) |-> <<ToString(group.pages[k].pageNum)>>],
         <<"-">>)

\* `1-${numPages}`
AllPages(numPages) == <<"1", "-", ToString(numPages)>>

\* `${cr}.pdf`
OutName(cr) == Append(cr, ".pdf")

\* file.name.replace(/\.pdf$/i, '_signed.pdf')
SignedName(name) ==
    IF name # <<>> /\ name[Len(name)] \in {".pdf", ".PDF"}
    THEN Append(SubSeq(name, 1, Len(name) - 1), "_signed.pdf")
    ELSE name

\* saveBlobAndLink(blob, filename, source): the element of _generatedFiles
GeneratedFile(blob, filename, source) ==
    [name |-> filename, blob |-> blob, source |-> source]

\* new Blob([srcBytes]): the bytes read from the file
OriginalBytes_Saved(file) == [bytes |-> "outPdf", of |-> file.name, pages |-> <<>>]
OriginalBytes(file) == [bytes |-> "srcBytes", of |-> file.name, pages |-> <<>>]

\* outPdf.save() after copyPages(srcPdfLib, pageIndices)
RebuiltBytes(file, group) ==
    [bytes |-> "outPdf", of |-> file.name,
     pages |-> [k \in 1..Len(group.pages) |-> group.pages[k].pageNum]]

\* pages.map(p => p.text).join(' ')
CombinedText(ps) == Join([k \in 1..Len(ps) |-> ps[k].text], <<" ">>)

\* const allCRs of handleSignedPDF: the unique identifiers of the pages in
\* page order or, if there is none, the first of the candidates found on
\* the combined text
AllCRs(ps, candidates) ==
    LET bearing == SelectSeq(ps, HasCR)
    IN  IF bearing # <<>>
        THEN Distinct([k \in 1..Len(bearing) |->
                          [value |-> bearing[k].cr,
                           type |-> bearing[k].crType]])
        ELSE IF candidates # <<>>
        THEN <<[value |-> candidates[1].value, type |-> candidates[1].type]>>
        ELSE <<>>

\* handleSignedPDF(file, srcBytes, pages, numPages) from "if (allCRs.length
\* >= 1)" on: what it returns, and what it adds to _generatedFiles, to
\* _manualBySource and to the log
handleSignedPDF(file, numPages, allCRs) ==
    IF allCRs # <<>>
    THEN [threw |-> FALSE, message |-> "",
          manifestEntries |->
              <<[input |-> file.name,
                 outputFile |-> OutName(allCRs[1].value),
                 cr |-> allCRs[1].value,
                 type |-> allCRs[1].type,
                 status |-> "DIGITAL_SIGNATURE_VALID",
                 stampStatus |-> "N/A",
                 signatureStatus |-> "DIGITAL",
                 pages |-> AllPages(numPages),
                 notes |-> "Digital signature preserved"]>>,
          generated |->
              <<GeneratedFile(OriginalBytes(file), OutName(allCRs[1].value),
                              file.name)>>,
          manual |-> <<>>,
          lines |-> <<"processing", "digital signature", "created",
                      "preserved">>]
    ELSE [threw |-> FALSE, message |-> "",
          manifestEntries |->
              <<[input |-> file.name,
                 outputFile |-> SignedName(file.name),
                 cr |-> NullToken,
                 type |-> Null,
                 status |-> "DIGITAL_SIG_NO_CR",
                 stampStatus |-> "N/A",
                 signatureStatus |-> "DIGITAL",
                 pages |-> AllPages(numPages),
                 notes |-> "CR not detected"]>>,
          generated |->
              <<GeneratedFile(OriginalBytes(file), SignedName(file.name),
                              file.name)>>,
          manual |-> <<[source |-> file.name,
                        about |-> "CR number not detected"]>>,
          lines |-> <<"processing", "digital signature", "no CR found",
                      "created">>]

\* the statuses for which STEP 4 adds a message to _manualBySource
ManualReviewStatuses ==
    {"NEEDS_REVIEW", "STAMP_MISSING", "SIGNATURE_MISSING", "BOTH_MISSING",
     "DATE_MISSING"}

\* the e.message of the exceptions of the model
LoadMessage == "Failed to load PDF document"
RenderMessage == "Failed to render page"

\* STEP 4 of processFile, one group with an identifier: the try block
\* (lines 998-1028), where result is what analyzeStampAndSignature
\* returns, and the catch block (lines 1030-1041)
ProcessGroup(file, group, result) ==
    IF file.renders
    THEN [manifestEntries |->
              <<[input |-> file.name,
                 outputFile |-> OutName(group.cr),
                 cr |-> group.cr,
                 type |-> group.crType,
                 status |-> result.overallStatus,
                 stampStatus |-> result.stamp.status,
                 signatureStatus |-> result.signature.status,
                 pages |-> PageRange(group),
                 notes |-> "summary"]>>,
          generated |->
              <<GeneratedFile(RebuiltBytes(file, group), OutName(group.cr),
                              file.name)>>,
          manual |->
              IF result.overallStatus \in ManualReviewStatuses
              THEN <<[source |-> file.name, about |-> result.overallStatus]>>
              ELSE <<>>,
          lines |-> <<"verification", "created">>]
    ELSE [manifestEntries |->
              <<[input |-> file.name,
                 outputFile |-> NullToken,
                 cr |-> group.cr,
                 type |-> group.crType,
                 status |-> "ERROR",
                 pages |-> PageRange(group),
                 notes |-> RenderMessage]>>,
          generated |-> <<>>,
          manual |-> <<>>,
          lines |-> <<"error">>]

\* the loop over crGroups, from group k on
RECURSIVE ProcessGroups(_, _, _, _, _)
ProcessGroups(file, gs, k, cfg, acc) ==
    IF k > Len(gs) THEN acc
    ELSE IF gs[k].cr = NullToken
    THEN ProcessGroups(file, gs, k + 1, cfg,
                       [acc EXCEPT !.lines = Append(@, "no CR found")])
    ELSE LET one == ProcessGroup(file, gs[k],
                                 analyzeStampAndSignature(file.measure, cfg))
         IN  ProcessGroups(file, gs, k + 1, cfg,
                 [manifestEntries |->
                      acc.manifestEntries \o one.manifestEntries,
                  generated |-> acc.generated \o one.generated,
                  manual |-> acc.manual \o one.manual,
                  lines |-> acc.lines \o one.lines])

\* if (manifestEntries.length === 0): the entry NO_CR_FOUND
NoCREntry(file, numPages) ==
    [input |-> file.name,
     outputFile |-> NullToken,
     cr |-> NullToken,
     type |-> Null,
     status |-> "NO_CR_FOUND",
     pages |-> AllPages(numPages),
     notes |-> "No valid confirmation numbers found"]

\* processFile after the loop over crGroups, which left done
FinishFile(file, numPages, done) ==
    [threw |-> FALSE, message |-> "",
     manifestEntries |-> IF done.manifestEntries = <<>>
                         THEN <<NoCREntry(file, numPages)>>
                         ELSE done.manifestEntries,
     generated |-> done.generated,
     manual |-> done.manual,
     lines |-> Append(done.lines, "completed")]

\* processFile from STEP 2 on, ps being the array pages
ProcessPages(file, ps, cfg) ==
    IF file.hasDigitalSig
    THEN handleSignedPDF(file, Len(ps),
                         AllCRs(ps, findCRsOnText(CombinedText(ps))))
    ELSE FinishFile(file, Len(ps),
             ProcessGroups(file, groupPagesByCR(ps), 1, cfg,
                 [manifestEntries |-> <<>>, generated |-> <<>>,
                  manual |-> <<>>, lines |-> <<"processing", "groups">>]))

\* processFile(file, config) of src/CR.js: whether it threw and with what
\* message, the manifestEntries it returns, and what it added to
\* _generatedFiles, to _manualBySource and to the log
processFile(file, cfg) ==
    IF ~file.loads
    THEN [threw |-> TRUE, message |-> LoadMessage,
          manifestEntries |-> <<>>, generated |-> <<>>, manual |-> <<>>,
          lines |-> <<>>]
    ELSE ProcessPages(file, ExtractPages(file.texts), cfg)

----------------------------------------------------------------------------
(* processFile of src/app.js.  A file of AppState.files carries what       *)
(* processPDF will do with it: throw, or return its results.               *)

ProcessPDFMessage == "Failed to process PDF"

\* AppState.excelBlobs.set(fileId, excelBlob)
SetBlob(blobs, fileId, excelBlob) ==
    IF \E k \in 1..Len(blobs) : blobs[k].fileId = fileId
    THEN [k \in 1..Len(blobs) |->
             IF blobs[k].fileId = fileId
             THEN [fileId |-> fileId, blob |-> excelBlob]
             ELSE blobs[k]]
    ELSE Append(blobs, [fileId |-> fileId, blob |-> excelBlob])

\* the reason of a file without accepted delivery notes (lines 1044-1052)
EmptyReason(found) ==
    IF Len(found.excluded) > 0
    THEN <<"No valid delivery notes: ", ToString(Len(found.excluded)),
           " excluded (9-10 digits)">>
    ELSE IF Len(found.invalid) > 0
    THEN <<"No valid delivery notes: ", ToString(Len(found.invalid)),
           " invalid entries found">>
    ELSE <<"No delivery notes found in document">>

\* processFile(fileId) of src/app.js: the file data and the Excel blobs
\* after it.  The absent value of error, results and emptyReason is <<>>.
AppProcessFile(fileData, blobs) ==
    IF fileData.outcome.throws
    THEN [fileData |-> [fileData EXCEPT !.status = "error",
                                        !.error = <<ProcessPDFMessage>>],
          excelBlobs |-> blobs]
    ELSE LET found == fileData.outcome.results
             acceptedNotes == Distinct(found.accepted)
             done == [fileData EXCEPT !.status = "done",
                                      !.error = <<>>,
                                      !.results = <<found>>]
         IN  IF Len(acceptedNotes) > 0
             THEN [fileData |-> done,
                   excelBlobs |-> SetBlob(blobs, fileData.id, acceptedNotes)]
             ELSE [fileData |-> [done EXCEPT !.emptyReason =
                                                 EmptyReason(found)],
                   excelBlobs |-> blobs]

----------------------------------------------------------------------------
(* The batch drivers: onRun of src/CR.js and processAllFiles of            *)
(* src/app.js.                                                             *)

\* longest batch
MaxFiles == 2

\* what the canvas of a last page measures: stamp, signature and date, or
\* nothing
Stamped ==
    [blueDensity |-> 500, darkStrokeDensity |-> 900, veryDarkDensity |-> 31,
     strokeRatio |-> 151,
     date |-> [density |-> 301, blackDensity |-> 0, blueDensity |-> 0]]

Blank ==
    [blueDensity |-> 0, darkStrokeDensity |-> 0, veryDarkDensity |-> 0,
     strokeRatio |-> 0,
     date |-> [density |-> 0, blackDensity |-> 0, blueDensity |-> 0]]

\* the texts of the pages of a file
TextLists ==
    { <<LabelPiece \o NumberPiece>>,
      << <<>> >>,
      <<LabelPiece \o NumberPiece,
        LabelPiece \o <<" ", "1", "0", "1", "7", "6", "6", "6", "0">>>>,
      << <<>>, LabelPiece \o NumberPiece, <<>> >> }

\* the files of onRun but for their names: one that does not load, the
\* digitally signed ones, and the others
CRFiles ==
    {[loads |-> FALSE, hasDigitalSig |-> FALSE, texts |-> << <<>> >>,
      renders |-> FALSE, measure |-> Blank]}
    \cup {[loads |-> TRUE, hasDigitalSig |-> TRUE, texts |-> texts,
           renders |-> TRUE, measure |-> Blank] : texts \in TextLists}
    \cup {[loads |-> TRUE, hasDigitalSig |-> FALSE, texts |-> texts,
           renders |-> way.renders, measure |-> way.measure] :
             texts \in TextLists,
             way \in {[renders |-> TRUE, measure |-> Stamped],
                      [renders |-> TRUE, measure |-> Blank],
                      [renders |-> FALSE, measure |-> Blank]}}

\* what processPDF does with a file of processAllFiles
Outcomes ==
    {[throws |-> TRUE,
      results |-> [accepted |-> <<>>, excluded |-> <<>>, invalid |-> <<>>]]}
    \cup {[throws |-> FALSE, results |-> found] :
            found \in
              { [accepted |-> <<"80012345">>, excluded |-> <<>>,
                 invalid |-> <<>>],
                [accepted |-> <<"80012345", "80012345">>,
                 excluded |-> <<>>, invalid |-> <<"123">>],
                [accepted |-> <<>>, excluded |-> <<"123456789">>,
                 invalid |-> <<"123">>],
                [accepted |-> <<>>, excluded |-> <<>>, invalid |-> <<"123">>],
                [accepted |-> <<>>, excluded |-> <<>>, invalid |-> <<>>] }}

\* the files of AppState.files but for their ids: added and not processed,
\* failed in an earlier run, done (and empty) in an earlier run
NoteFiles ==
    {[status |-> "pending", error |-> <<>>, results |-> <<>>,
      emptyReason |-> <<>>, outcome |-> outcome] : outcome \in Outcomes}
    \cup {[status |-> "error", error |-> <<ProcessPDFMessage>>,
           results |-> <<>>, emptyReason |-> <<>>, outcome |-> outcome] :
             outcome \in Outcomes}
    \cup {[status |-> "done", error |-> <<>>,
           results |-> <<[accepted |-> <<>>, excluded |-> <<>>,
                          invalid |-> <<>>]>>,
           emptyReason |-> <<"No delivery notes found in document">>,
           outcome |-> [throws |-> FALSE,
                        results |-> [accepted |-> <<>>, excluded |-> <<>>,
                                     invalid |-> <<>>]]]}

\* window._selectedFiles: the k-th file has the k-th name
NamedFiles(files) ==
    [k \in 1..Len(files) |->
        [name |-> <<ToString(k), ".pdf">>,
         loads |-> files[k].loads,
         hasDigitalSig |-> files[k].hasDigitalSig,
         texts |-> files[k].texts,
         renders |-> files[k].renders,
         measure |-> files[k].measure]]

\* AppState.files: the k-th file has the k-th id
IdentifiedFiles(files) ==
    [k \in 1..Len(files) |->
        [id |-> k,
         status |-> files[k].status,
         error |-> files[k].error,
         results |-> files[k].results,
         emptyReason |-> files[k].emptyReason,
         outcome |-> files[k].outcome]]

\* const config of onRun, the inputs of the page left at their defaults
RunConfig ==
    [blueThreshold |-> DefaultBlueThreshold,
     signatureThreshold |-> DefaultSignatureThreshold,
     compDensityThreshold |-> 0]

\* appendLog for each line of a file
LogLines(name, lines) ==
    [k \in 1..Len(lines) |-> [file |-> name, line |-> lines[k]]]

\* the i of the next iteration of the loop of onRun: the try block and
\* its catch block are inside the loop (lines 1395-1411)
AfterFile_Rethrown(i, n, threw) == IF threw THEN n + 1 ELSE i + 1
AfterFile(i, n, threw) == i + 1

\* the variables the batch drivers leave alone
batchFrame == <<noteVars, normVars, groupVars, verifyVars, locateVars,
                toolVars>>

BatchInit ==
    /\ \/ /\ pc = "onRun"
          /\ selectedFiles \in
                 {NamedFiles(files) : files \in SeqsUpTo(CRFiles, MaxFiles)}
       \/ /\ pc = "processAllFiles"
          /\ selectedFiles \in
                 {IdentifiedFiles(files) :
                      files \in SeqsUpTo(NoteFiles, MaxFiles)}
    /\ fileI = 0
    /\ manifest = <<>>
    /\ generatedFiles = <<>>
    /\ manualBySource = <<>>
    /\ excelBlobs = <<>>
    /\ log = <<>>
    /\ ValidateIdle /\ NormIdle /\ GroupIdle /\ VerifyIdle /\ LocateIdle
    /\ ToolIdle

\* onRun up to its loop (lines 1365-1389)
OnRunStart ==
    /\ pc = "onRun"
    /\ generatedFiles' = <<>>
    /\ manualBySource' = <<>>
    /\ IF selectedFiles = <<>>
       THEN /\ log' = <<[file |-> <<>>, line |-> "No files selected"]>>
            /\ pc' = "noFiles"
            /\ UNCHANGED fileI
       ELSE /\ log' = <<[file |-> <<>>, line |-> "Config"]>>
            /\ pc' = "onRunLoop"
            /\ fileI' = 1
    /\ manifest' = <<>>
    /\ UNCHANGED <<batchFrame, selectedFiles, excelBlobs>>

\* the try block after processFile returned result, or the catch block
\* after it threw (lines 1396-1411)
AfterProcessFile(f, result) ==
    /\ generatedFiles' = generatedFiles \o result.generated
    /\ manualBySource' = manualBySource \o result.manual
    /\ manifest' =
           IF result.threw THEN manifest
           ELSE Append(manifest,
                       [input |-> f.name, pages |-> Len(f.texts),
                        manifestEntries |-> result.manifestEntries])
    /\ log' = log \o LogLines(f.name, result.lines)
                  \o IF result.threw
                     THEN <<[file |-> f.name, line |-> result.message]>>
                     ELSE <<>>
    /\ fileI' = AfterFile(fileI, Len(selectedFiles), result.threw)

\* one iteration of the loop of onRun (lines 1391-1412)
OnRunFile ==
    /\ pc = "onRunLoop"
    /\ fileI <= Len(selectedFiles)
    /\ AfterProcessFile(selectedFiles[fileI],
                        processFile(selectedFiles[fileI], RunConfig))
    /\ UNCHANGED <<pc, batchFrame, selectedFiles, excelBlobs>>

\* onRun after its loop (lines 1414-1431)
OnRunEnd ==
    /\ pc = "onRunLoop"
    /\ fileI > Len(selectedFiles)
    /\ log' = Append(log, [file |-> <<>>, line |-> "Processing complete"])
    /\ pc' = "ran"
    /\ UNCHANGED <<batchFrame, selectedFiles, fileI, manifest,
                   generatedFiles, manualBySource, excelBlobs>>

\* processAllFiles up to its loop (lines 1066-1077)
ProcessAllStart ==
    /\ pc = "processAllFiles"
    /\ pc' = "processAllLoop"
    /\ fileI' = 1
    /\ UNCHANGED <<batchFrame, selectedFiles, manifest, generatedFiles,
                   manualBySource, excelBlobs, log>>

\* one step of the loop of processAllFiles over the files that were
\* pending or in error at its start; processFile changes the status of
\* its own file only, so that the status of a file the loop has not
\* reached is the status it had at the start
ProcessAllFile ==
    /\ pc = "processAllLoop"
    /\ fileI <= Len(selectedFiles)
    /\ IF selectedFiles[fileI].status \in {"pending", "error"}
       THEN LET after == AppProcessFile(selectedFiles[fileI], excelBlobs)
            IN  /\ selectedFiles' =
                       [selectedFiles EXCEPT ![fileI] = after.fileData]
                /\ excelBlobs' = after.excelBlobs
       ELSE UNCHANGED <<selectedFiles, excelBlobs>>
    /\ fileI' = fileI + 1
    /\ UNCHANGED <<pc, batchFrame, manifest, generatedFiles, manualBySource,
                   log>>

\* processAllFiles after its loop (lines 1079-1099)
ProcessAllEnd ==
    /\ pc = "processAllLoop"
    /\ fileI > Len(selectedFiles)
    /\ pc' = "processedAll"
    /\ UNCHANGED <<batchFrame, selectedFiles, fileI, manifest,
                   generatedFiles, manualBySource, excelBlobs, log>>

BatchNext ==
    \/ OnRunStart
    \/ OnRunFile
    \/ OnRunEnd
    \/ ProcessAllStart
    \/ ProcessAllFile
    \/ ProcessAllEnd

SpecBatch == BatchInit /\ [][BatchNext]_vars

----------------------------------------------------------------------------
(* Vocabulary of the properties of the batch drivers *)

\* onRun has returned after its loop
Ran == pc = "ran"

\* processAllFiles has returned
ProcessedAll == pc = "processedAll"

\* onRun is in its loop or after it
InOnRun == pc \in {"onRunLoop", "ran"}

\* the file at position k of the batch
FileAt(k) == selectedFiles[k]

\* the results of the manifest for the input of a name
ResultsFor(name) == SelectSeq(manifest, LAMBDA r : r.input = name)

\* the manifest entries for the input of a name
EntriesFor(name) ==
    {e \in UNION {Range(r.manifestEntries) : r \in Range(manifest)} :
        e.input = name}

\* the lines of the log about the file of a name
LinesAbout(name) == {l.line : l \in {x \in Range(log) : x.file = name}}

\* the files generated from the source of a name
GeneratedFrom(name) == SelectSeq(generatedFiles, LAMBDA g : g.source = name)

\* the manual-review messages for the source of a name
ManualFor(name) == SelectSeq(manualBySource, LAMBDA m : m.source = name)

\* s is the front of t
IsPrefix(s, t) == Len(s) <= Len(t) /\ SubSeq(t, 1, Len(s)) = s

\* C18: after onRun, the manifest holds at least one entry for every
\* input document, and for a document whose source could not be loaded an
\* entry with status ERROR and the message of the failure.
Orig_C18 ==
    Ran =>
        \A k \in 1..Len(selectedFiles) :
            /\ EntriesFor(FileAt(k).name) # {}
            /\ ~FileAt(k).loads =>
                  \E e \in EntriesFor(FileAt(k).name) :
                      e.status = "ERROR" /\ e.notes = LoadMessage

\* the file at position k of onRun came after a file that failed
AfterFailedLoad(k) == \E j \in 1..(k - 1) : ~FileAt(j).loads

\* the file at position k of processAllFiles came after a file whose
\* processing failed in this run
AfterFailedPDF(k) ==
    \E j \in 1..(k - 1) :
        FileAt(j).outcome.throws /\ FileAt(j).status = "error"

\* onRun processed the file at position k: it left its lines in the log
\* and, if the file loads, its result in the manifest
OnRunProcessed(k) ==
    /\ LinesAbout(FileAt(k).name) # {}
    /\ FileAt(k).loads =>
          /\ Len(ResultsFor(FileAt(k).name)) = 1
          /\ "processing" \in LinesAbout(FileAt(k).name)

\* processAllFiles processed the file at position k: it is not pending,
\* and it is done with the results of processPDF unless processPDF threw
ProcessAllProcessed(k) ==
    /\ FileAt(k).status \in {"done", "error"}
    /\ FileAt(k).outcome.throws => FileAt(k).status = "error"
    /\ ~FileAt(k).outcome.throws =>
          /\ FileAt(k).status = "done"
          /\ FileAt(k).results = <<FileAt(k).outcome.results>>

\* a step of a loop leaves what the earlier documents produced as it is:
\* the manifest, the generated files and the manual-review messages grow
\* at their end, the data of the other files and the Excel blobs of the
\* other files stay
EarlierResultsKept ==
    pc \in {"onRunLoop", "processAllLoop"} =>
        /\ IsPrefix(manifest, manifest')
        /\ IsPrefix(generatedFiles, generatedFiles')
        /\ IsPrefix(manualBySource, manualBySource')
        /\ IsPrefix(log, log')
        /\ Len(selectedFiles') = Len(selectedFiles)
        /\ \A k \in 1..Len(selectedFiles) :
              k # fileI => selectedFiles'[k] = selectedFiles[k]
        /\ \A k \in 1..Len(excelBlobs) :
              /\ k <= Len(excelBlobs')
              /\ excelBlobs'[k].fileId = excelBlobs[k].fileId
              /\ excelBlobs[k].fileId # fileI =>
                    excelBlobs'[k] = excelBlobs[k]

SignedDone(k) ==
    /\ InOnRun
    /\ k < fileI
    /\ FileAt(k).loads
    /\ FileAt(k).hasDigitalSig

\* C20: for a document with a digital signature processFile generates one
\* file, the bytes of the source as they were read; it analyzes no stamp
\* and no signature region and adds no manual-review message about stamp
\* or signature; it returns one manifest entry, with signatureStatus
\* DIGITAL, stampStatus N/A and the pages 1-N, whatever identifiers the
\* pages carry.
Thm_C20 ==
    \A k \in 1..Len(selectedFiles) :
        SignedDone(k) =>
            LET name == FileAt(k).name
            IN  /\ Len(GeneratedFrom(name)) = 1
                /\ GeneratedFrom(name)[1].blob =
                       [bytes |-> "srcBytes", of |-> name, pages |-> <<>>]
                /\ "verification" \notin LinesAbout(name)
                /\ \A j \in 1..Len(ManualFor(name)) :
                      ManualFor(name)[j].about \notin ManualReviewStatuses
                /\ Len(ResultsFor(name)) = 1
                /\ Len(ResultsFor(name)[1].manifestEntries) = 1
                /\ \A e \in EntriesFor(name) :
                      /\ e.signatureStatus = "DIGITAL"
                      /\ e.stampStatus = "N/A"
                      /\ e.pages = <<"1", "-", ToString(Len(FileAt(k).texts))>>

\* onRun returned for a batch with a signed file whose two pages carry
\* two identifiers: it has the one entry of the first identifier
Wit_C20 ==
    /\ Ran
    /\ \E k \in 1..Len(selectedFiles) :
          /\ SignedDone(k)
          /\ Len(FileAt(k).texts) = 2
          /\ FileAt(k).texts[1] # FileAt(k).texts[2]
          /\ \A t \in Range(FileAt(k).texts) : t # <<>>
          /\ \E e \in EntriesFor(FileAt(k).name) :
                e.cr = <<"5", "7", "7", "7", "7", "0">>

----------------------------------------------------------------------------
(* extractPotentialDeliveryNotes on the text items of a page: numbers of   *)
(* every length around the limits 7 and 12, a number with white space in   *)
(* it, a date, a decimal, an alphanumeric code, a word, white space only.  *)

ExtractPool ==
    { Rep("3", 6), Rep("3", 7), Rep("3", 8), Rep("3", 12), Rep("3", 13),
      <<" ">> \o Rep("3", 3) \o <<" ", "nbsp">> \o Rep("3", 4) \o <<"\n">>,
      <<"1", "2", ".", "0", "3", ".", "2", "0", "2", "4">>,
      Rep("3", 7) \o <<".", "5">>,
      <<"A">> \o Rep("3", 8),
      <<"L", "i", "e", "f", "e", "r", "s", "c", "h", "e", "i", "n">>,
      <<" ", " ">> }

ExtractInit ==
    /\ textItems \in SeqsUpTo(ExtractPool, MaxItems)
    /\ pc = "extract"
    /\ extractionResult = NoExtraction
    /\ results = EmptyResults(0)
    /\ seen = {}
    /\ tempAccepted = <<>>
    /\ pending7Digit = <<>>
    /\ idx = 1
    /\ dominantDigit = Null
    /\ NormIdle
    /\ OtherIdle

ExtractNext == Extract

SpecExtract == ExtractInit /\ [][ExtractNext]_vars

----------------------------------------------------------------------------
(* Vocabulary of the properties of the extraction *)

\* extractPotentialDeliveryNotes has returned
Extracted == pc # "extract"

\* the text item at position k without its white space
Cleaned(k) == SelectSeq(textItems[k], LAMBDA ch : ch \notin Whitespace)

\* a string of 7 to 12 characters, all of them digits
IsNumberOf7To12(v) ==
    /\ Len(v) \in 7..12
    /\ \A i \in 1..Len(v) : v[i] \in Digits

\* the positions of the text items that are the number v
PositionsOf(v) == {k \in 1..Len(textItems) : Cleaned(k) = v}

\* the position of the first text item that is the number v
FirstPositionOf(v) ==
    CHOOSE k \in PositionsOf(v) : \A j \in PositionsOf(v) : k <= j

\* the numbers of 7 to 12 digits among the text items
NumbersOfItems ==
    {Cleaned(k) : k \in {j \in 1..Len(textItems) : IsNumberOf7To12(Cleaned(j))}}

\* the sum of the counts of the values of unique from position k on
RECURSIVE CountsFrom(_)
CountsFrom(k) ==
    IF k > Len(extractionResult.unique) THEN 0
    ELSE extractionResult.occurrenceCount[extractionResult.unique[k]]
             + CountsFrom(k + 1)

----------------------------------------------------------------------------
(* Vocabulary of the ties of the first-digit histogram *)

\* the dominant digit has been computed for a document with 7-digit
\* candidates
DominantComputed == pc \in {"pending", "finalize", "done"} /\ HasSevenDigits

\* the candidate at position k is counted in the histogram under digit d
CountedUnder(k, d) ==
    \/ IsEightDigits(Candidates[k]) /\ Candidates[k][1] = d
    \/ \E i \in 1..Len(LeadingZeroCorrections) :
          /\ LeadingZeroCorrections[i].original = Candidates[k]
          /\ LeadingZeroCorrections[i].corrected[1] = d

\* the place in the document of the first candidate counted under digit d
FirstCounted(d) ==
    Least({k \in 1..Len(Candidates) : CountedUnder(k, d)})

\* the digits that share the highest frequency of the histogram
TiedDigits == {d \in Digits : Frequency(d) >= 1 /\ IsMostFrequent(d)}

\* the number a digit stands for
NumberOf(d) == CHOOSE n \in 0..9 : ToString(n) = d

\* C22, as stated: of the digits that tie for the highest frequency, the one
\* chosen is the one counted first in the order of the document.
Orig_C22 ==
    (DominantComputed /\ HasDominant /\ Cardinality(TiedDigits) >= 2) =>
        \A e \in TiedDigits : FirstCounted(dominantDigit) <= FirstCounted(e)

\* C22, amended: of the digits that tie for the highest frequency, the one
\* chosen is the numerically smallest, wherever it stands in the document.
Thm_C22 ==
    (DominantComputed /\ HasDominant /\ Cardinality(TiedDigits) >= 2) =>
        /\ dominantDigit \in TiedDigits
        /\ \A e \in TiedDigits : NumberOf(dominantDigit) <= NumberOf(e)

\* two digits tie, the smaller one was counted after the greater one, and
\* was chosen
Wit_C22 ==
    /\ Returned
    /\ DominantComputed
    /\ HasDominant
    /\ Cardinality(TiedDigits) >= 2
    /\ \E e \in TiedDigits :
          /\ FirstCounted(e) < FirstCounted(dominantDigit)
          /\ NumberOf(dominantDigit) < NumberOf(e)

----------------------------------------------------------------------------
(* Vocabulary of the exclusion contexts of the returned matches *)

\* the positions at which the characters found stand in s
StandsAt(s, found) ==
    {at \in 1..Len(s) :
        /\ at + Len(found) - 1 <= Len(s)
        /\ SubSeq(s, at, at + Len(found) - 1) = found}

\* the characters found stand somewhere in the text, or in the normalized
\* text, where the 100 characters around them are no exclusion context
OutsideExclusionContext(found) ==
    \E s \in {text, normalizeOCRText(text)} :
        \E at \in StandsAt(s, found) : ~isInExclusionContext(s, at, found)

\* C23, as stated: whichever strategy found it, no returned match is one
\* whose surrounding 100 characters match an exclusion-context pattern.
Orig_C23 ==
    Located =>
        \A k \in 1..Len(crMatches) : OutsideExclusionContext(crMatches[k].raw)

----------------------------------------------------------------------------
\* C24, as stated: after validateDeliveryNotes no value is in accepted more
\* than once, and the length of accepted is uniqueCount, whatever the
\* candidates and their order.
Orig_C24 ==
    Returned =>
        /\ \A i, j \in 1..Len(results.accepted) :
              results.accepted[i] = results.accepted[j] => i = j
        /\ Len(results.accepted) = results.uniqueCount

----------------------------------------------------------------------------
(* Vocabulary of the count of the duplicates *)

\* the occurrences in the document of the candidates from position k on
\* that are accepted, as they are or corrected
RECURSIVE AcceptedOccurrencesFrom(_)
AcceptedOccurrencesFrom(k) ==
    IF k > Len(Candidates) THEN 0
    ELSE (IF InAccepted(Candidates[k])
          THEN extractionResult.occurrenceCount[extractionResult.unique[k]]
          ELSE 0)
             + AcceptedOccurrencesFrom(k + 1)

\* C25, as stated: duplicateCount is the number of occurrences of the
\* candidates that are accepted, as they are or corrected, less the number
\* of distinct accepted values, and duplicates has at most one entry for a
\* value.
Orig_C25 ==
    Returned =>
        /\ results.duplicateCount
               = AcceptedOccurrencesFrom(1)
                     - Cardinality(Range(results.accepted))
        /\ \A i, j \in 1..Len(results.duplicates) :
              results.duplicates[i].value = results.duplicates[j].value
                  => i = j

----------------------------------------------------------------------------
\* C26, as stated: during and after a run of the CR batch the files of
\* window._generatedFiles have names that differ from one another, so that
\* the archive built from them has one entry for each of them.
Orig_C26 ==
    \A i, j \in 1..Len(generatedFiles) :
        generatedFiles[i].name = generatedFiles[j].name => i = j

----------------------------------------------------------------------------
(* The rename tool (src/rename-upload.js): the list of the uploaded files  *)
(* and the handlers of its buttons.  No handler awaits anything before it  *)
(* has changed the list, so each of them is one step.                      *)

\* CONFIG.maxFiles (100 in the source), as a bound of the model
RenameMaxFiles == 3

\* CONFIG.maxFileSizeMB and CONFIG.maxTotalSizeMB
MaxFileSizeMB == 50
MaxTotalSizeMB == 500

\* String(n).padStart(2, '0') for a number below 100
PadStart2(n) == IF n < 10 THEN <<"0", ToString(n)>> ELSE <<ToString(n)>>

\* formatShortDate(d): yymmdd
formatShortDate(d) ==
    PadStart2(d.year % 100) \o PadStart2(d.month) \o PadStart2(d.day)

\* getExtension(name): the name from its last dot on, in lower case, if
\* that dot is not the first character; '' otherwise
getExtension(name) ==
    LET i == Least({k \in 1..Len(name) :
                       /\ name[k] = "."
                       /\ \A j \in (k + 1)..Len(name) : name[j] # "."})
    IN  IF i > 1
        THEN [k \in 1..(Len(name) - i + 1) |-> LowerOf(name[i + k - 1])]
        ELSE <<>>

\* getTotalSize(), in MB
RECURSIVE TotalSize(_)
TotalSize(entries) ==
    IF entries = <<>> THEN 0
    ELSE Head(entries).file.size + TotalSize(Tail(entries))

\* validateFile(file).valid; strictExtensionCheck is false
validateFile(file) == file.size <= MaxFileSizeMB

\* the entry pushed for a valid file
NewEntry(f) ==
    [file |-> f, originalName |-> f.name, newName |-> <<>>,
     renamedFile |-> <<>>, error |-> Null]

\* the entries pushed by the loop of handleFiles over arr
RECURSIVE AddedEntries(_)
AddedEntries(arr) ==
    IF arr = <<>> THEN <<>>
    ELSE (IF validateFile(Head(arr)) THEN <<NewEntry(Head(arr))>> ELSE <<>>)
             \o AddedEntries(Tail(arr))

\* `${datePrefix}_${index}${ext}`
SafeName(datePrefix, index, ext) ==
    datePrefix \o <<"_", ToString(index)>> \o ext

\* The body of the loop of processAndRename for the entry at position i
\* (i - 1 in the source).  Where the File constructor throws, the catch
\* block makes a Blob and gives it the name.
RenamedEntry(entry, i, datePrefix, hasFileConstructor) ==
    IF entry.renamedFile # <<>> THEN entry
    ELSE LET ext == IF getExtension(entry.originalName) # <<>>
                    THEN getExtension(entry.originalName)
                    ELSE <<".", "p", "d", "f">>
             safeName == SafeName(datePrefix, i, ext)
         IN  [entry EXCEPT
                 !.error = Null,
                 !.newName = safeName,
                 !.renamedFile =
                     [kind |-> IF hasFileConstructor THEN "File" ELSE "Blob",
                      name |-> safeName,
                      size |-> entry.file.size]]

\* the files a user picks: the same name twice, an upper-case extension, a
\* name without extension, a file above the size limit
UploadPool ==
    { [name |-> <<"a", ".", "p", "d", "f">>, size |-> 1],
      [name |-> <<"b", ".", "T", "X", "T">>, size |-> 2],
      [name |-> <<"n", "o", "t", "e", "s">>, size |-> 1],
      [name |-> <<"a", ".", "p", "d", "f">>, size |-> 60] }

\* the most files picked at once
MaxPicked == 2

\* new Date() when the files are processed
Dates == { [year |-> 2024, month |-> 1, day |-> 26] }

\* the variables the rename tool leaves alone
renameFrame == <<noteVars, normVars, groupVars, verifyVars, locateVars,
                 batchVars, appVars, harnessVars>>

RenameInit ==
    /\ pc = "rename"
    /\ uploadedFiles = <<>>
    /\ ValidateIdle /\ NormIdle /\ GroupIdle /\ VerifyIdle /\ LocateIdle
    /\ BatchIdle /\ AppIdle /\ harnessMatches = <<>>

\* handleFiles(fileList)
HandleFiles ==
    \E arr \in SeqsUpTo(UploadPool, MaxPicked) :
        /\ arr # <<>>
        /\ Len(uploadedFiles) + Len(arr) <= RenameMaxFiles
        /\ TotalSize(uploadedFiles) + TotalSize([k \in 1..Len(arr) |->
                                                    [file |-> arr[k]]])
               <= MaxTotalSizeMB
        /\ uploadedFiles' = uploadedFiles \o AddedEntries(arr)
        /\ UNCHANGED <<pc, renameFrame>>

\* removeFile(index): uploadedFiles.splice(index, 1), for the index of a row
RemoveFile ==
    \E index \in 1..Len(uploadedFiles) :
        /\ uploadedFiles' = SubSeq(uploadedFiles, 1, index - 1)
                                \o SubSeq(uploadedFiles, index + 1,
                                          Len(uploadedFiles))
        /\ UNCHANGED <<pc, renameFrame>>

\* processAndRename()
ProcessAndRename ==
    \E now \in Dates, hasFileConstructor \in BOOLEAN :
        /\ uploadedFiles # <<>>
        /\ uploadedFiles' =
               [i \in 1..Len(uploadedFiles) |->
                   RenamedEntry(uploadedFiles[i], i, formatShortDate(now),
                                hasFileConstructor)]
        /\ UNCHANGED <<pc, renameFrame>>

\* clearAllFiles(), the user confirming
ClearUploaded ==
    /\ uploadedFiles # <<>>
    /\ uploadedFiles' = <<>>
    /\ UNCHANGED <<pc, renameFrame>>

RenameNext == HandleFiles \/ RemoveFile \/ ProcessAndRename \/ ClearUploaded

SpecRename == RenameInit /\ [][RenameNext]_vars

\* the entries of the archive of downloadAllZip: the names given to
\* zip.file for the entries that have a renamed file
ZipNames ==
    LET filesToZip == SelectSeq(uploadedFiles, LAMBDA e : e.renamedFile # <<>>)
    IN  [k \in 1..Len(filesToZip) |->
            IF filesToZip[k].renamedFile.name # <<>>
            THEN filesToZip[k].renamedFile.name
            ELSE filesToZip[k].newName]

\* C27, as stated: whatever files were added, removed, processed and
\* cleared, no two listed files that have a renamed file have the same
\* newName, and no two entries of the archive have the same name.
Orig_C27 ==
    /\ \A i, j \in 1..Len(uploadedFiles) :
          (/\ uploadedFiles[i].renamedFile # <<>>
           /\ uploadedFiles[j].renamedFile # <<>>
           /\ uploadedFiles[i].newName = uploadedFiles[j].newName) => i = j
    /\ \A i, j \in 1..Len(ZipNames) : ZipNames[i] = ZipNames[j] => i = j

----------------------------------------------------------------------------
(* The page of the delivery-note app (src/app.js): the handlers of its     *)
(* events.  A handler runs until it returns or awaits; the only await      *)
(* that gives way to other events is the await of processPDF in            *)
(* processFile, so that a call of processFile is two steps: up to the      *)
(* await, and from the moment processPDF returns or throws.  AppState.files *)
(* is selectedFiles, in the order of insertion.                            *)

\* CONFIG.MAX_FILES (500 in the source), as a bound of the model
AppMaxFiles == 2

\* the most ids Utils.generateId gives out in a behaviour of the model
MaxIds == 4

\* what processPDF does for a file: it throws, it finds delivery notes, it
\* finds none
AppOutcomes == {o \in Outcomes : o.throws \/ o.results.invalid = <<>>}

\* the object handleFilesAdded sets for a file
NewFile(id) ==
    [id |-> id, status |-> "pending", error |-> <<>>, results |-> <<>>,
     emptyReason |-> <<>>, outcome |-> <<>>]

\* AppState.files.has(id)
HasFile(fs, id) == \E k \in 1..Len(fs) : fs[k].id = id

\* the place of AppState.files.get(id) in the map
PlaceOf(fs, id) == CHOOSE k \in 1..Len(fs) : fs[k].id = id

\* processFile(fileId) up to its await: the files after it
StartFile(fs, id) ==
    [k \in 1..Len(fs) |->
        IF fs[k].id = id
        THEN [fs[k] EXCEPT !.status = "processing", !.error = <<>>]
        ELSE fs[k]]

\* The object fileData of a call of processFile: the object of the map, or
\* the object the call still holds when the map has been cleared.
FileDataOf(fs, id) == IF HasFile(fs, id) THEN fs[PlaceOf(fs, id)] ELSE NewFile(id)

\* processFile(fileId) from the return of processPDF on: the files and the
\* Excel blobs after it
FinishFileCall(fs, blobs, id, outcome) ==
    LET after == AppProcessFile([FileDataOf(fs, id) EXCEPT !.outcome = outcome],
                                blobs)
    IN  [files |-> [k \in 1..Len(fs) |->
                       IF fs[k].id = id THEN after.fileData ELSE fs[k]],
         excelBlobs |-> after.excelBlobs]

\* the ids of the entries of AppState.files that are pending or in error
PendingIds(fs) ==
    LET waiting == SelectSeq(fs, LAMBDA f : f.status \in {"pending", "error"})
    IN  [k \in 1..Len(waiting) |-> waiting[k].id]

\* The place in pending of the next file of the loop of processAllFiles
\* from place i on whose processFile awaits: processFile returns at once
\* for an id that is not in the map.
NextAwaited(fs, queue, i) ==
    Least({j \in i..Len(queue) : HasFile(fs, queue[j])})

\* AppState.isProcessing after the loop of processAllFiles went on to the
\* place next of a list of total files (0: the loop is over)
StillProcessing_NeverReset(next, total) == TRUE
StillProcessing(next, total) == next # 0

\* the variables the page leaves alone
appFrame == <<noteVars, normVars, groupVars, verifyVars, locateVars,
              fileI, manifest, generatedFiles, manualBySource, log,
              renameVars, harnessVars>>

AppInit ==
    /\ pc = "app"
    /\ ValidateIdle /\ NormIdle /\ GroupIdle /\ VerifyIdle /\ LocateIdle
    /\ BatchIdle /\ RenameIdle /\ AppIdle /\ harnessMatches = <<>>

\* handleFilesAdded(files), n of the files being PDF files
HandleFilesAdded ==
    \E n \in 1..AppMaxFiles :
        /\ Len(selectedFiles) + n <= AppMaxFiles
        /\ nextId + n - 1 <= MaxIds
        /\ selectedFiles' =
               selectedFiles \o [k \in 1..n |-> NewFile(nextId + k - 1)]
        /\ nextId' = nextId + n
        /\ UNCHANGED <<pc, appFrame, excelBlobs, isProcessing, inFlight,
                       allPending, allIndex>>

\* processFile(fileId) from the button of a file that is pending or in
\* error, up to its await
ProcessFileCall ==
    \E k \in 1..Len(selectedFiles) :
        /\ selectedFiles[k].status \in {"pending", "error"}
        /\ selectedFiles' = StartFile(selectedFiles, selectedFiles[k].id)
        /\ inFlight' = inFlight \cup {[id |-> selectedFiles[k].id,
                                       by |-> "button"]}
        /\ UNCHANGED <<pc, appFrame, excelBlobs, isProcessing, allPending,
                       allIndex, nextId>>

\* The loop of processAllFiles from place i of pending on, for the files
\* fs: it starts the next processFile and awaits it, or it is over and
\* isProcessing is reset.
ContinueAll(fs, queue, i, calls) ==
    LET next == NextAwaited(fs, queue, i)
    IN  /\ isProcessing' = StillProcessing(next, Len(queue))
        /\ allIndex' = IF next # 0 THEN next ELSE Len(queue) + 1
        /\ selectedFiles' = IF next # 0 THEN StartFile(fs, queue[next]) ELSE fs
        /\ inFlight' = IF next # 0
                       THEN calls \cup {[id |-> queue[next], by |-> "loop"]}
                       ELSE calls

\* processAllFiles() when no run is going
ProcessAllFilesCall ==
    /\ ~isProcessing
    /\ allPending' = PendingIds(selectedFiles)
    /\ ContinueAll(selectedFiles, PendingIds(selectedFiles), 1, inFlight)
    /\ UNCHANGED <<pc, appFrame, excelBlobs, nextId>>

\* processAllFiles() while a run is going: if (AppState.isProcessing) return
ProcessAllFilesAgain ==
    /\ isProcessing
    /\ UNCHANGED vars

\* processPDF returns or throws for a call of processFile, which goes on
\* to its end; the loop of processAllFiles goes on if the call was its own
ExtractionReturns ==
    \E call \in inFlight, outcome \in AppOutcomes :
        LET after == FinishFileCall(selectedFiles, excelBlobs, call.id,
                                    outcome)
        IN  /\ excelBlobs' = after.excelBlobs
            /\ IF call.by = "loop"
               THEN /\ ContinueAll(after.files, allPending, allIndex + 1,
                                   inFlight \ {call})
                    /\ UNCHANGED allPending
               ELSE /\ selectedFiles' = after.files
                    /\ inFlight' = inFlight \ {call}
                    /\ UNCHANGED <<isProcessing, allPending, allIndex>>
            /\ UNCHANGED <<pc, appFrame, nextId>>

\* clearAllFiles(), the user confirming
ClearAllFiles ==
    /\ IF isProcessing
       THEN UNCHANGED <<selectedFiles, excelBlobs>>
       ELSE selectedFiles' = <<>> /\ excelBlobs' = <<>>
    /\ UNCHANGED <<pc, appFrame, isProcessing, inFlight, allPending,
                   allIndex, nextId>>

AppNext ==
    \/ HandleFilesAdded
    \/ ProcessFileCall
    \/ ProcessAllFilesCall
    \/ ProcessAllFilesAgain
    \/ ExtractionReturns
    \/ ClearAllFiles

SpecApp == AppInit /\ [][AppNext]_vars

\* C28, as stated: whatever the order of the events, every key of
\* AppState.excelBlobs is the id of a file of AppState.files.
Orig_C28 ==
    \A k \in 1..Len(excelBlobs) : HasFile(selectedFiles, excelBlobs[k].fileId)

----------------------------------------------------------------------------
(* The runs of processAllFiles when no file is processed from its own      *)
(* button.  Every call of processPDF returns or throws in the end, which   *)
(* is the weak fairness of ExtractionReturns; the other steps of a run     *)
(* are taken within the steps that call processAllFiles or go on after     *)
(* processPDF.                                                             *)

AppRunNext ==
    \/ HandleFilesAdded
    \/ ProcessAllFilesCall
    \/ ProcessAllFilesAgain
    \/ ExtractionReturns
    \/ ClearAllFiles

SpecAppRun == AppInit /\ [][AppRunNext]_vars /\ WF_vars(ExtractionReturns)

\* the ids of the files that are pending or in error
WaitingIds ==
    {selectedFiles[k].id :
        k \in {j \in 1..Len(selectedFiles) :
                  selectedFiles[j].status \in {"pending", "error"}}}

\* a run of processAllFiles starts and goes on to its first await
RunStarts == ~isProcessing /\ isProcessing'

\* a run of processAllFiles resets isProcessing
RunEnds == isProcessing /\ ~isProcessing'

\* the file of the given id is listed after the step, done or in error
SettledAfter(id) ==
    \E k \in 1..Len(selectedFiles') :
        /\ selectedFiles'[k].id = id
        /\ selectedFiles'[k].status \in {"done", "error"}

\* C30: a run of processAllFiles resets isProcessing in the end; the files
\* of the run are the files that were pending or in error when it started,
\* and when isProcessing is reset each of them is done or in error; while
\* a run is going no other call of processAllFiles replaces its list or
\* moves its loop back, and no step but the end of the run changes the
\* files of the run that the loop has passed.
Thm_C30 ==
    /\ isProcessing ~> ~isProcessing
    /\ [][RunStarts => Range(allPending') = WaitingIds]_vars
    /\ [][RunEnds => \A id \in Range(allPending) : SettledAfter(id)]_vars
    /\ [][(isProcessing /\ isProcessing') =>
              /\ allPending' = allPending
              /\ allIndex' \in {allIndex, allIndex + 1}
              /\ Cardinality(inFlight') = 1]_vars

\* a run over two files is over: one of them is done, the other in error
Wit_C30 ==
    /\ pc = "app"
    /\ ~isProcessing
    /\ Len(allPending) = 2
    /\ allIndex = 3
    /\ inFlight = {}
    /\ \E i, j \in 1..Len(selectedFiles) :
          /\ selectedFiles[i].id \in Range(allPending)
          /\ selectedFiles[j].id \in Range(allPending)
          /\ selectedFiles[i].status = "done"
          /\ selectedFiles[j].status = "error"

----------------------------------------------------------------------------
(* The heuristic test harness (src/app.js, from line 1645 on): its own     *)
(* normalizeOCRText and findCRsOnText.  Its normalizeToken, isValidCR and  *)
(* getCRType are those of src/CR.js, character for character.              *)

\* The replacements of the accented letters by a, o, u and of the sharp s
\* by ss; of these letters the texts of the model hold the a with umlaut.
RECURSIVE FoldAccents(_)
FoldAccents(s) ==
    IF s = <<>> THEN <<>>
    ELSE (IF Head(s) = "a-umlaut" THEN <<"a">>
          ELSE IF Head(s) = "sharp-s" THEN <<"s", "s">>
          ELSE <<Head(s)>>) \o FoldAccents(Tail(s))

\* normalizeOCRText of the harness
HarnessNormalizeOCRText(t) == FoldAccents(normalizeOCRText(t))

\* /Gelangensbestatigung(?:\s+Nr\.?)?/i
GelangensbestatigungPlain ==
    [pat |->
        <<"g", "e", "l", "a", "n", "g", "e", "n", "s", "b", "e", "s", "t",
          "a", "t", "i", "g", "u", "n", "g">>,
     opt |-> OptionalNr]

\* /Gelangensbestaetigung(?:\s+Nr\.?)?/i
GelangensbestaetigungSpelled ==
    [pat |->
        <<"g", "e", "l", "a", "n", "g", "e", "n", "s", "b", "e", "s", "t",
          "a", "e", "t", "i", "g", "u", "n", "g">>,
     opt |-> OptionalNr]

\* /Gelangensbest[aä]?t?i?g?u?n?g?(?:\s+Nr\.?)?/i
GelangensbestPartial ==
    [pat |->
        <<"g", "e", "l", "a", "n", "g", "e", "n", "s", "b", "e", "s", "t",
          "[a|a-umlaut]?", "t?", "i?", "g?", "u?", "n?", "g?">>,
     opt |-> OptionalNr]

\* /Best[aä]tigung(?:\s+Nr\.?)?/i and /best[aä]tigung/i
BestatigungEither ==
    [pat |-> <<"b", "e", "s", "t", "[a|a-umlaut]", "t", "i", "g", "u", "n",
               "g">>,
     opt |-> OptionalNr]

BestatigungBroad == [pat |-> BestatigungEither.pat, opt |-> <<>>]

\* /innergemeinschaftlich/i
Innergemeinschaftlich ==
    [pat |-> <<"i", "n", "n", "e", "r", "g", "e", "m", "e", "i", "n", "s",
               "c", "h", "a", "f", "t", "l", "i", "c", "h">>,
     opt |-> <<>>]

\* /Lieferung/i
Lieferung ==
    [pat |-> <<"l", "i", "e", "f", "e", "r", "u", "n", "g">>, opt |-> <<>>]

\* const directPatterns of the harness: the three of src/CR.js and three
\* more
HarnessDirectPatterns ==
    directPatterns
        \o << [anchor |-> GelangensbestatigungPlain, tail |-> <<>>],
              [anchor |-> GelangensbestaetigungSpelled, tail |-> <<>>],
              [anchor |-> GelangensbestPartial, tail |-> <<>>] >>

\* PRIORITY 1 of the harness: the direct patterns on the normalized text
\* (k = 1..6), then on the text (k = 7..12)
RECURSIVE HarnessDirectAnchor(_, _, _)
HarnessDirectAnchor(t, normalizedText, k) ==
    IF k > 12 THEN <<>>
    ELSE OrElse(DirectMatch(
                    DirectExec(HarnessDirectPatterns[((k - 1) % 6) + 1],
                               IF k <= 6 THEN normalizedText ELSE t, 1)),
                HarnessDirectAnchor(t, normalizedText, k + 1))

\* the loop over a list of anchors, from the k-th anchor on
RECURSIVE NearAnchors(_, _, _, _, _)
NearAnchors(normalizedText, anchors, k, window, postalCheck) ==
    IF k > Len(anchors) THEN <<>>
    ELSE OrElse(NearAnchor(normalizedText, anchors[k], window, postalCheck),
                NearAnchors(normalizedText, anchors, k + 1, window,
                            postalCheck))

\* const strictAnchors of the harness.  Its seventh anchor,
\* /\bNr\.?\s*(?:vom|from)?\s*$/i, matches up to the end of the text only,
\* so that the window after it is empty and the loop goes on.
HarnessStrictAnchors ==
    << NoOfConfirmationOfReceipt, Gelangensbestaetigung,
       GelangensbestatigungPlain, GelangensbestaetigungSpelled,
       GelangensbestPartial, BestatigungEither >>

\* const broadAnchors of the harness
HarnessBroadAnchors ==
    << ConfirmationOfReceipt, Gelangen, BestatigungBroad,
       Innergemeinschaftlich, Lieferung >>

\* /Nr\.?\s*[:\|\-\s]*\[?\s*(5\d{5})\s*\]?/gi up to its group
NrPrefix == <<"n", "r", "\\.?", "\\s*", "[:|\\-\\s]*", "\\[?", "\\s*">>

\* the position of the group (5\d{5}) of nrPattern matched at pos, 0 if
\* the pattern does not match there
NrGroupAt(s, pos) ==
    LET e == MatchFrom(NrPrefix, 1, s, pos)
    IN  IF /\ e > 0
           /\ e + 5 <= Len(s)
           /\ s[e] = "5"
           /\ \A j \in (e + 1)..(e + 5) : s[j] \in Digits
        THEN e ELSE 0

\* /Gelangen|bestat|confirmation|receipt|innergemeinschaftlich|Lieferung/i
\* on the 150 characters before pos
HasRelevantContext(s, pos) ==
    LET from == IF pos - 150 < 1 THEN 1 ELSE pos - 150
        beforeContext == Substring(s, from, pos - 1)
    IN  \/ Test(Gelangen.pat, beforeContext)
        \/ Test(<<"b", "e", "s", "t", "a", "t">>, beforeContext)
        \/ Test(<<"c", "o", "n", "f", "i", "r", "m", "a", "t", "i", "o", "n">>,
                beforeContext)
        \/ Test(<<"r", "e", "c", "e", "i", "p", "t">>, beforeContext)
        \/ Test(Innergemeinschaftlich.pat, beforeContext)
        \/ Test(Lieferung.pat, beforeContext)

\* the array returned for the group of nrPattern that stands at position e
NrMatch(normalizedText, e) ==
    << [value |-> normalizeToken(SubSeq(normalizedText, e, e + 5)),
        type |-> "H01",
        raw |-> SubSeq(normalizedText, e, e + 5),
        source |-> "nr_pattern",
        confidence |-> "high"] >>

\* PRIORITY 3.5 of the harness: "Nr." followed by a number of the short
\* shape, after a relevant word
NrPattern(normalizedText) ==
    LET hits == {pos \in 1..Len(normalizedText) :
                    /\ NrGroupAt(normalizedText, pos) > 0
                    /\ isValidCR(normalizeToken(
                           SubSeq(normalizedText,
                                  NrGroupAt(normalizedText, pos),
                                  NrGroupAt(normalizedText, pos) + 5)))
                    /\ HasRelevantContext(normalizedText, pos)}
    IN  IF hits = {} THEN <<>>
        ELSE NrMatch(normalizedText, NrGroupAt(normalizedText, Least(hits)))

\* hasAnchorNearby of the harness for a match at position at:
\* /confirmation|receipt|Gelangen|bestatigung|bestaetigung|
\*  innergemeinschaftlich|Lieferung|Nr\./i on the 200 characters before
HarnessHasAnchorNearby(normalizedText, at) ==
    LET from == IF at - 200 < 1 THEN 1 ELSE at - 200
        nearbyContext == Substring(normalizedText, from, at - 1)
    IN  \/ Test(<<"c", "o", "n", "f", "i", "r", "m", "a", "t", "i", "o", "n">>,
                nearbyContext)
        \/ Test(<<"r", "e", "c", "e", "i", "p", "t">>, nearbyContext)
        \/ Test(Gelangen.pat, nearbyContext)
        \/ Test(<<"b", "e", "s", "t", "a", "t", "i", "g", "u", "n", "g">>,
                nearbyContext)
        \/ Test(<<"b", "e", "s", "t", "a", "e", "t", "i", "g", "u", "n", "g">>,
                nearbyContext)
        \/ Test(Innergemeinschaftlich.pat, nearbyContext)
        \/ Test(Lieferung.pat, nearbyContext)
        \/ Test(<<"n", "r", ".">>, nearbyContext)

\* the array the global search of the harness returns for the positions
\* h01 and ep1 of the numbers it does not pass over
HarnessGlobalFirst(normalizedText, h01, ep1) ==
    IF h01 # {}
    THEN << GlobalCandidate(normalizedText, Least(h01), 6, "H01", "medium") >>
    ELSE IF ep1 # {}
    THEN << GlobalCandidate(normalizedText, Least(ep1), 8, "EP1", "medium") >>
    ELSE <<>>

\* PRIORITY 4 of the harness: the global search, with isPostalCodeContext
\* for the short shape and hasAnchorNearby for the long one
HarnessGlobalSearch(normalizedText) ==
    HarnessGlobalFirst(normalizedText,
        {at \in NumberMatches(normalizedText, "5", 6) :
            /\ ~LooksLikePostalCode(
                   Substring(normalizedText, at + 6, at + 55))
            /\ isValidCR(normalizeToken(SubSeq(normalizedText, at, at + 5)))},
        {at \in NumberMatches(normalizedText, "1", 8) :
            /\ HarnessHasAnchorNearby(normalizedText, at)
            /\ isValidCR(normalizeToken(SubSeq(normalizedText, at, at + 7)))})

\* the priorities of findCRsOnText of the harness
HarnessFindOn(t, normalizedText) ==
    OrElse(HarnessDirectAnchor(t, normalizedText, 1),
           OrElse(NearAnchors(normalizedText, HarnessStrictAnchors, 1, 50,
                              FALSE),
                  OrElse(NearAnchors(normalizedText, HarnessBroadAnchors, 1,
                                     100, TRUE),
                         OrElse(NrPattern(normalizedText),
                                HarnessGlobalSearch(normalizedText)))))

\* findCRsOnText(t) of the harness
HarnessFindCRsOnText(t) ==
    IF t = <<>> THEN <<>> ELSE HarnessFindOn(t, HarnessNormalizeOCRText(t))

\* a test case of the harness is run on the text the locator of src/CR.js
\* was run on
HarnessFindCRs ==
    /\ pc = "located"
    /\ harnessMatches' = HarnessFindCRsOnText(text)
    /\ pc' = "compared"
    /\ UNCHANGED <<noteVars, normVars, groupVars, verifyVars, batchVars,
                   renameVars, appVars, locateVars>>

HarnessNext == FindCRs \/ HarnessFindCRs

SpecHarness == LocateInit /\ [][HarnessNext]_vars

\* both locators were run on the text
Compared == pc = "compared"

\* C29, as stated: on every text the two locators both return no match, or
\* both return a match of the same value and type.
Orig_C29 ==
    Compared =>
        \/ crMatches = <<>> /\ harnessMatches = <<>>
        \/ /\ crMatches # <<>>
           /\ harnessMatches # <<>>
           /\ crMatches[1].value = harnessMatches[1].value
           /\ crMatches[1].type = harnessMatches[1].type

============================================================================
